---- MODULE Spec2Model ----
(***************************************************************************)
(* Vhisper: press-and-hold hotkey -> capture -> gate -> recognize ->       *)
(* refine -> output.  A model of the hotkey supervisor and the two         *)
(* platform listeners (src-tauri/src/hotkey), of the save_config command   *)
(* (src-tauri/src/commands/config.rs) and of the pipeline orchestrator     *)
(* (src-tauri/src/pipeline/voice.rs).                                      *)
(*                                                                         *)
(* Amplitudes are integers in units of 1/10000 of full scale, so that the  *)
(* two f32 thresholds 0.001 and 0.05 are the integers 10 and 500.          *)
(***************************************************************************)
EXTENDS Integers, Sequences, FiniteSets, TLC

\* ------------------------------------------------------------------ bounds
MaxPresses == 2
MaxSaves == 1
MaxSamples == 1
MaxCalls == 2
MaxGateLen == 3

\* ------------------------------------------------- program constants
\* voice.rs:94   if max_amplitude < 0.001
SilenceThreshold == 10
\* voice.rs:101  if max_amplitude < 0.05
QuietThreshold == 500
\* macos.rs:314  get_frontmost_app_pid().unwrap_or(-1)
NoPid == -1

\* ------------------------------------------------------------ key codes
\* settings.rs KeyCode, restricted to two modifiers and one ordinary key.
Keys == {"Alt", "Control", "KeyA"}

\* settings.rs:83 KeyCode::is_modifier
is_modifier(k) == k \in {"Alt", "Control", "Shift", "Meta"}

\* settings.rs:156 HotkeyBinding {key, modifiers}
HotkeyBinding(k, m) == [key |-> k, modifiers |-> m]

Bindings ==
    { HotkeyBinding("Alt", {}),
      HotkeyBinding("KeyA", {"Control"}) }

\* The binding is physically held: primary key and every modifier are down.
PhysicallyHeld(b, down) == b.key \in down /\ b.modifiers \subseteq down

\* --------------------------------------------------------- macOS matching
\* macos.rs:93 keycode_to_cg_flag: a modifier has a flag bit, others have none.
\* A flag is named by the modifier that sets it; "none" is Option::None.
keycode_to_cg_flag(k) == IF is_modifier(k) THEN k ELSE "none"

\* macos.rs:24 keycode_to_cg_keycode: ordinary keys have a virtual key code.
keycode_to_cg_keycode(k) == IF is_modifier(k) THEN "none" ELSE k

\* CGEvent.get_flags(): the modifier flags set while the keys `down` are held.
EventFlags(down) == {k \in down : is_modifier(k)}

\* macos.rs:104 check_modifiers
mac_check_modifiers(flags, required) ==
    \A m \in required :
        keycode_to_cg_flag(m) # "none" => keycode_to_cg_flag(m) \in flags

\* A raw event as the tap callback sees it.
RawEvent(t, code, flags) == [type |-> t, keycode |-> code, flags |-> flags]

\* A match that, for a modifier primary key, looks at the primary key's
\* flag alone.
mac_key_pressed_no_modifiers(binding, ev) ==
    IF ev.type = "FlagsChanged" THEN
        IF is_modifier(binding.key) THEN
            IF keycode_to_cg_flag(binding.key) \in ev.flags THEN "down" ELSE "up"
        ELSE IF binding.key = "CapsLock" THEN
            IF "AlphaShift" \in ev.flags
               /\ mac_check_modifiers(ev.flags, binding.modifiers)
            THEN "down" ELSE "up"
        ELSE "ignore"
    ELSE IF is_modifier(binding.key) THEN "ignore"
    ELSE IF ev.type = "KeyDown" THEN
        IF ev.keycode = keycode_to_cg_keycode(binding.key)
           /\ mac_check_modifiers(ev.flags, binding.modifiers)
        THEN "down" ELSE "ignore"
    ELSE IF ev.type = "KeyUp" THEN
        IF ev.keycode = keycode_to_cg_keycode(binding.key) THEN "up" ELSE "ignore"
    ELSE "ignore"

\* A match that counts a key-up of the primary key only while the required
\* modifiers are present.
mac_key_pressed_filtered_up(binding, ev) ==
    IF ev.type = "FlagsChanged" THEN
        IF is_modifier(binding.key) THEN
            IF keycode_to_cg_flag(binding.key) \in ev.flags
               /\ mac_check_modifiers(ev.flags, binding.modifiers)
            THEN "down" ELSE "up"
        ELSE IF binding.key = "CapsLock" THEN
            IF "AlphaShift" \in ev.flags
               /\ mac_check_modifiers(ev.flags, binding.modifiers)
            THEN "down" ELSE "up"
        ELSE "ignore"
    ELSE IF is_modifier(binding.key) THEN "ignore"
    ELSE IF ev.type = "KeyDown" THEN
        IF ev.keycode = keycode_to_cg_keycode(binding.key)
           /\ mac_check_modifiers(ev.flags, binding.modifiers)
        THEN "down" ELSE "ignore"
    ELSE IF ev.type = "KeyUp" THEN
        IF ev.keycode = keycode_to_cg_keycode(binding.key)
           /\ mac_check_modifiers(ev.flags, binding.modifiers)
        THEN "up" ELSE "ignore"
    ELSE "ignore"

\* macos.rs:146-226, the callback's match: the value it hands to
\* handle_key_state_change, or "ignore" when it returns without a call.
mac_key_pressed(binding, ev) ==
    IF ev.type = "FlagsChanged" THEN
        IF is_modifier(binding.key) THEN
            IF keycode_to_cg_flag(binding.key) # "none"
            THEN IF keycode_to_cg_flag(binding.key) \in ev.flags
                    /\ mac_check_modifiers(ev.flags, binding.modifiers)
                 THEN "down" ELSE "up"
            ELSE "up"
        ELSE IF binding.key = "CapsLock" THEN
            IF "AlphaShift" \in ev.flags
               /\ mac_check_modifiers(ev.flags, binding.modifiers)
            THEN "down" ELSE "up"
        ELSE "ignore"
    ELSE IF ev.type = "KeyDown" THEN
        IF is_modifier(binding.key) THEN "ignore"
        ELSE IF keycode_to_cg_keycode(binding.key) # "none"
                /\ ev.keycode = keycode_to_cg_keycode(binding.key)
                /\ mac_check_modifiers(ev.flags, binding.modifiers)
             THEN "down" ELSE "ignore"
    ELSE IF ev.type = "KeyUp" THEN
        IF is_modifier(binding.key) THEN "ignore"
        ELSE IF keycode_to_cg_keycode(binding.key) # "none"
                /\ ev.keycode = keycode_to_cg_keycode(binding.key)
             THEN "up" ELSE "ignore"
    ELSE "ignore"

\* ------------------------------------------------------- Windows matching
\* windows.rs:99-102 is_key_down (GetAsyncKeyState high bit)
is_key_down(vk, down) == vk \in down

\* windows.rs:106-108 check_modifiers
win_check_modifiers(modifiers, down) == \A m \in modifiers : is_key_down(m, down)

\* windows.rs:139-145 hotkey_active
hotkey_active(binding, down) ==
    is_key_down(binding.key, down) /\ win_check_modifiers(binding.modifiers, down)

\* ------------------------------------------------------ the edge detector
\* A listener instance: macos.rs:121-123 / windows.rs:117-118 create the
\* flags false (and the pid -1) every time a listener starts.
NewListener(binding) ==
    [ alive            |-> TRUE,
      pc               |-> "check",
      binding          |-> binding,
      is_key_pressed   |-> FALSE,
      is_recording     |-> FALSE,
      original_app_pid |-> NoPid ]

NoListener == [NewListener(HotkeyBinding("Alt", {})) EXCEPT !.alive = FALSE]

\* handle_key_state_change whose press branch does not store is_key_pressed.
handle_key_state_change_no_store(key_pressed, l, front) ==
    IF key_pressed /\ ~l.is_key_pressed THEN
        IF ~l.is_recording
        THEN [ l    |-> [l EXCEPT !.is_recording = TRUE,
                                  !.original_app_pid = front],
               trig |-> "start", pid |-> NoPid ]
        ELSE [ l |-> l, trig |-> "none", pid |-> NoPid ]
    ELSE IF ~key_pressed /\ l.is_key_pressed THEN
        IF l.is_recording
        THEN [ l    |-> [l EXCEPT !.is_key_pressed = FALSE, !.is_recording = FALSE],
               trig |-> "stop", pid |-> l.original_app_pid ]
        ELSE [ l |-> [l EXCEPT !.is_key_pressed = FALSE], trig |-> "none", pid |-> NoPid ]
    ELSE [ l |-> l, trig |-> "none", pid |-> NoPid ]

\* handle_key_state_change whose release branch asks for the foreground
\* process again instead of loading the stored pid.
handle_key_state_change_pid_at_release(key_pressed, l, front) ==
    IF key_pressed /\ ~l.is_key_pressed THEN
        IF ~l.is_recording
        THEN [ l    |-> [l EXCEPT !.is_key_pressed = TRUE,
                                  !.is_recording = TRUE,
                                  !.original_app_pid = front],
               trig |-> "start", pid |-> NoPid ]
        ELSE [ l |-> [l EXCEPT !.is_key_pressed = TRUE], trig |-> "none", pid |-> NoPid ]
    ELSE IF ~key_pressed /\ l.is_key_pressed THEN
        IF l.is_recording
        THEN [ l    |-> [l EXCEPT !.is_key_pressed = FALSE, !.is_recording = FALSE],
               trig |-> "stop", pid |-> front ]
        ELSE [ l |-> [l EXCEPT !.is_key_pressed = FALSE], trig |-> "none", pid |-> NoPid ]
    ELSE [ l |-> l, trig |-> "none", pid |-> NoPid ]

\* macos.rs:297-338 handle_key_state_change.  `front` is what
\* get_frontmost_app_pid().unwrap_or(-1) returns now.  The result is the
\* listener's new flags, the thread it spawns ("start", "stop" or "none")
\* and the pid handed to stop_recording.
handle_key_state_change(key_pressed, l, front) ==
    IF key_pressed /\ ~l.is_key_pressed THEN
        IF ~l.is_recording
        THEN [ l    |-> [l EXCEPT !.is_key_pressed = TRUE,
                                  !.is_recording = TRUE,
                                  !.original_app_pid = front],
               trig |-> "start", pid |-> NoPid ]
        ELSE [ l |-> [l EXCEPT !.is_key_pressed = TRUE], trig |-> "none", pid |-> NoPid ]
    ELSE IF ~key_pressed /\ l.is_key_pressed THEN
        IF l.is_recording
        THEN [ l    |-> [l EXCEPT !.is_key_pressed = FALSE, !.is_recording = FALSE],
               trig |-> "stop", pid |-> l.original_app_pid ]
        ELSE [ l |-> [l EXCEPT !.is_key_pressed = FALSE], trig |-> "none", pid |-> NoPid ]
    ELSE [ l |-> l, trig |-> "none", pid |-> NoPid ]

\* windows.rs:147-171, the body of the polling loop after hotkey_active is
\* computed.  Windows passes no pid (stop_and_process(None), windows.rs:213).
win_edge(active, l) ==
    IF active /\ ~l.is_key_pressed THEN
        IF ~l.is_recording
        THEN [ l    |-> [l EXCEPT !.is_key_pressed = TRUE, !.is_recording = TRUE],
               trig |-> "start", pid |-> NoPid ]
        ELSE [ l |-> [l EXCEPT !.is_key_pressed = TRUE], trig |-> "none", pid |-> NoPid ]
    ELSE IF ~active /\ l.is_key_pressed THEN
        IF l.is_recording
        THEN [ l    |-> [l EXCEPT !.is_key_pressed = FALSE, !.is_recording = FALSE],
               trig |-> "stop", pid |-> NoPid ]
        ELSE [ l |-> [l EXCEPT !.is_key_pressed = FALSE], trig |-> "none", pid |-> NoPid ]
    ELSE [ l |-> l, trig |-> "none", pid |-> NoPid ]

\* ------------------------------------------------------------ configuration
\* settings.rs:186 AppConfig, the fragments the core consumes:
\* hotkey.binding, asr.provider and whether the selected provider's section
\* is present, llm.enabled and whether the selected llm section is present,
\* output.restore_clipboard.
AppConfig(b, provider, asrSet, llmEnabled, llmSet, restore) ==
    [ binding           |-> b,
      provider          |-> provider,
      asr_configured    |-> asrSet,
      llm_enabled       |-> llmEnabled,
      llm_configured    |-> llmSet,
      restore_clipboard |-> restore ]

Providers == {"Qwen", "OpenAIWhisper", "Bogus"}

\* Every configuration of the pipeline fragments, under the default binding.
PipelineConfigs ==
    { AppConfig(HotkeyBinding("Alt", {}), p, a, e, c, r) :
        p \in Providers, a \in BOOLEAN, e \in BOOLEAN, c \in BOOLEAN, r \in BOOLEAN }

\* The configurations the whole-system specification saves and loads.
HotkeyConfigs ==
    { AppConfig(HotkeyBinding("Alt", {}), "Qwen", TRUE, FALSE, FALSE, TRUE),
      AppConfig(HotkeyBinding("KeyA", {"Control"}), "OpenAIWhisper", TRUE, TRUE, TRUE, FALSE),
      AppConfig(HotkeyBinding("Alt", {}), "Bogus", FALSE, TRUE, FALSE, TRUE) }

\* The snapshot slot of a stop_and_process that has not read the config yet.
NoConfig == AppConfig(HotkeyBinding("Alt", {}), "unread", FALSE, FALSE, FALSE, FALSE)

\* ------------------------------------------------------------- the recorder
\* AudioRecorder (crate::audio): Idle/Recording and the sample buffer.
IdleRecorder == [state |-> "Idle", buffer |-> <<>>]

\* AudioRecorder::start succeeding: Idle -> Recording with a fresh buffer; a
\* start while Recording is a no-op.
recorder_start(r) ==
    IF r.state = "Idle" THEN [state |-> "Recording", buffer |-> <<>>] ELSE r

\* AudioRecorder::stop: the recorder is Idle and drained afterwards, whether
\* the call returns the samples or an error.
recorder_stop(r) == IdleRecorder

\* ---------------------------------------------------------- amplitude gate
Abs(x) == IF x < 0 THEN -x ELSE x

\* f32::max
f32_max(a, b) == IF b > a THEN b ELSE a

\* voice.rs:81  samples.iter().map(|s| s.abs()).fold(0.0f32, f32::max)
RECURSIVE fold_abs_max(_, _)
fold_abs_max(samples, acc) ==
    IF samples = <<>> THEN acc
    ELSE fold_abs_max(Tail(samples), f32_max(acc, Abs(Head(samples))))

max_amplitude(samples) == fold_abs_max(samples, 0)

\* amplitude_gate with both comparisons inclusive.
amplitude_gate_inclusive(samples) ==
    IF max_amplitude(samples) <= SilenceThreshold THEN "silent"
    ELSE IF max_amplitude(samples) <= QuietThreshold THEN "quiet"
    ELSE "ok"

\* voice.rs:94-106: "silent" is the permission/silence error, "quiet" the
\* too-quiet error, "ok" falls through to encoding.
amplitude_gate(samples) ==
    IF max_amplitude(samples) < SilenceThreshold THEN "silent"
    ELSE IF max_amplitude(samples) < QuietThreshold THEN "quiet"
    ELSE "ok"

\* ------------------------------------------------------ pipeline boundaries
\* asr::create_asr_service: the factory fails for an unknown provider name
\* and for a provider whose section is not configured.
create_asr_service(cfg) ==
    cfg.provider \in {"Qwen", "DashScope", "OpenAIWhisper", "FunAsr"} /\ cfg.asr_configured

\* llm::create_llm_service: Ok(Some(service)) only for a configured provider.
create_llm_service(cfg) == cfg.llm_configured

\* What the provider can answer to one recognize call.
Transcripts == {"", "hello"}
AsrErrors == {"Network", "Encoding", "Api"}
\* What the refinement backend can answer to one refine_text call.
Refinements == {"", "Hello."}

\* PipelineError values (voice.rs:11-22) as <<variant, inner>>.
Ok(text) == [kind |-> "Ok", text |-> text, err |-> <<"-", "-">>]
Err(variant, inner) == [kind |-> "Err", text |-> "", err |-> <<variant, inner>>]
Pending == [kind |-> "Pending", text |-> "", err |-> <<"-", "-">>]

\* One stop_and_process invocation (voice.rs:56).  `log` is the sequence of
\* steps it has run, `emitted` the number of output_text calls it has made;
\* the fields after `log` record what the boundaries did and answered.
NewTask(id, pid) ==
    [ id      |-> id,
      pc      |-> "entry",
      pid     |-> pid,
      samples |-> <<>>,
      cfg     |-> NoConfig,
      text    |-> "",
      result  |-> Pending,
      log     |-> <<>>,
      edge    |-> 0,       \* the stop trigger whose thread awaits it, 0 for another caller
      stopped |-> FALSE,   \* recorder.stop() has run in this invocation
      drained |-> -1,      \* how many samples recorder.stop() returned
      answer  |-> "-",     \* what recognize answered: "ok" or the AsrError
      refine  |-> "-",     \* how refine_text answered: "ok" or "failed"
      outOk   |-> "-",     \* how output_text answered: "ok" or "failed"
      emitted |-> 0,
      guard   |-> "none",  \* the guard of the recorder lock it holds: "write", "read"
      locks   |-> <<>> ]   \* the guards of the recorder lock it has taken, in order

Return(t, res) == [t EXCEPT !.pc = "done", !.result = res, !.samples = <<>>]
Logged(t, step) == [t EXCEPT !.log = Append(@, step)]

\* self.recorder.write() / .read() succeeded: the invocation holds the guard.
locked(t, mode) == [t EXCEPT !.guard = mode, !.locks = Append(@, mode)]

\* A block that never drops its guard.
unlocked_leak(t) == t

\* The block that took the guard ends (voice.rs:63, 76, 119): it is dropped.
unlocked(t) == [t EXCEPT !.guard = "none"]

\* ==================================================================== state
VARIABLES
    platform,        \* target_os: "macos" or "windows" ("none": no hotkey layer)
    pipelineAvail,   \* lib.rs:19 VOICE_PIPELINE is set
    keysDown,        \* the keys physically held
    frontPid,        \* the foreground process id, NoPid when there is none
    config,          \* lib.rs:69 config_arc, shared by AppState and the pipeline
    senderSet,       \* hotkey/mod.rs:20 CONFIG_SENDER is set
    reloadChan,      \* hotkey/mod.rs:33 the unbounded channel of bindings
    supPc,           \* where the supervisor loop of hotkey/mod.rs:38 stands
    current_binding, \* hotkey/mod.rs:36
    listener,        \* the listener thread the supervisor spawned last
    stopSignal,      \* a () is waiting in the listener's stop_rx
    threads,         \* std::thread::spawn bodies that have not run yet
    recorder,        \* voice.rs:29 the AudioRecorder behind the RwLock
    lockPoisoned,    \* that RwLock is poisoned
    tasks,           \* the stop_and_process invocations whose caller awaits them
    calls,           \* stop_and_process invocations so far
    outputs,         \* the output_text calls made, in order
    events,          \* per trigger, the events emitted toward the UI for it, in order
    trigLog,         \* start/stop threads spawned by the present listener
    edges,           \* satisfied/unsatisfied transitions the present listener saw
    session,         \* bookkeeping of the press that started the open session
    presses,         \* key presses so far
    saves,           \* save_config calls so far
    gateIn,          \* the buffer handed to the amplitude gate
    gateOut,         \* the gate's answer for gateIn
    sess,            \* one recognize call of a provider client (asr/*.rs)
    stream,          \* the streaming stage of one recognize call, byte by byte
    probe,           \* one test_api call of a provider client
    kbd              \* one keyboard watched by a macOS and a Windows listener

hotkeyCore == <<platform, keysDown, frontPid, senderSet, reloadChan, supPc,
                current_binding, listener, stopSignal, threads, trigLog, edges,
                session, presses, saves>>
hotkeyVars == <<hotkeyCore, events>>
pipelineVars == <<pipelineAvail, config, recorder, lockPoisoned, tasks, calls, outputs>>
gateOnly == <<gateIn, gateOut>>
otherCalls == <<stream, probe, kbd>>
gateVars == <<gateOnly, sess, otherCalls>>
vars == <<hotkeyVars, pipelineVars, gateVars>>

FrontPids == {NoPid, 1}

NoEdges == [last |-> FALSE, rise |-> 0, fall |-> 0]

NoSession ==
    [ active      |-> FALSE,   \* a start was triggered and its stop was not
      starts      |-> 0,       \* start triggers so far
      trigs       |-> 0,       \* start and stop triggers so far
      holdStarts  |-> 0,       \* start triggers during the present physical hold
      holdBinding |-> HotkeyBinding("Alt", {}),
      straddled   |-> FALSE,   \* a reload was applied during the hold
      pressPid    |-> NoPid ]  \* the foreground pid at the latest start trigger

\* ------------------------------------------------------------- bookkeeping
Observed(e, pressed) ==
    [ last |-> pressed,
      rise |-> e.rise + (IF pressed /\ ~e.last THEN 1 ELSE 0),
      fall |-> e.fall + (IF ~pressed /\ e.last THEN 1 ELSE 0) ]

Triggered(s, trig, b) ==
    IF trig = "start" THEN
        [s EXCEPT !.active = TRUE, !.starts = @ + 1, !.trigs = @ + 1,
                  !.holdStarts = @ + 1,
                  !.holdBinding = IF s.holdStarts = 0 THEN b ELSE @]
    ELSE IF trig = "stop" THEN
        [s EXCEPT !.active = FALSE, !.trigs = @ + 1, !.straddled = FALSE]
    ELSE s

\* The foreground pid `front` is what the start trigger found (macos.rs:314).
Captured(s, trig, front) ==
    IF trig = "start" THEN [s EXCEPT !.pressPid = front] ELSE s

\* A key of the binding that started the hold goes up: the hold is over.
KeyWentUp(s, k) ==
    IF s.holdStarts > 0 /\ (k = s.holdBinding.key \/ k \in s.holdBinding.modifiers)
    THEN [s EXCEPT !.holdStarts = 0] ELSE s

Logged2(log, trig) == IF trig = "none" THEN log ELSE Append(log, trig)

\* An event emitted with app_handle.emit: its name and its payload.
Event(name, msg) == [name |-> name, msg |-> msg]

\* The triggers (start and stop threads) are numbered in the order they are
\* spawned; every press spawns at most one start and one stop.
EdgeIds == 1 .. (2 * MaxPresses + 2 * MaxSaves + 2)

\* The events `evs` are emitted, in order, for the trigger `edge`.
Emitted(all, edge, evs) == [all EXCEPT ![edge] = @ \o evs]

NoMsg == <<"-", "-">>

\* The thread a trigger spawns (macos.rs:319, macos.rs:333, windows.rs:167).
Thread(id, kind, pid) == [id |-> id, kind |-> kind, pid |-> pid]

\* ------------------------------------------------------ provider sessions
\* The three WebSocket clients of asr/dashscope.rs, asr/qwen.rs, asr/funasr.rs.
SessionProviders == {"DashScope", "Qwen", "FunAsr"}

\* Result<AsrResult, AsrError> of recognize; `detail` is what the error
\* string carries, as a sequence of its parts.
SessOk(text) == [kind |-> "Ok", text |-> text, detail |-> <<>>]
SessErr(variant, detail) == [kind |-> variant, text |-> "", detail |-> detail]
SessPending == [kind |-> "Pending", text |-> "", detail |-> <<>>]

\* What read.next().await can yield: a text frame, a Close frame, a transport
\* error, the end of the stream (None), or another frame (ping, binary).
\* A text frame is JSON: `parse` says whether it deserializes into the
\* provider's response struct; `event` is header.event (DashScope), type
\* (Qwen) or mode (FunASR); `error` is the remote error code when the frame
\* carries one (with the message "boom"), else "none"; `text` is the
\* transcript field, "none" when absent; `fin` is sentence_end (DashScope)
\* or is_final (FunASR).
Frame(kind) ==
    [kind |-> kind, parse |-> FALSE, event |-> "-", error |-> "none",
     text |-> "none", fin |-> FALSE]

TextFrame(event, error, text, fin) ==
    [kind |-> "Text", parse |-> TRUE, event |-> event, error |-> error,
     text |-> text, fin |-> fin]

RemoteCode == "E42"

RemoteMessage == "boom"

AckEvents(p) ==
    IF p = "DashScope" THEN {"task-started"}
    ELSE IF p = "Qwen" THEN {"session.created", "session.updated"}
    ELSE {}

Events(p) ==
    IF p = "DashScope"
        THEN {"task-started", "result-generated", "task-finished", "other"}
    ELSE IF p = "Qwen"
        THEN {"session.created", "session.updated", "transcription.completed",
              "transcription.text", "error", "other"}
    ELSE {"offline", "2pass-online", "none"}

FrameTexts == {"none", "", "a", "b"}

\* Everything the server of provider p can make the client read.
ServerFrames(p) ==
    {Frame("Close"), Frame("Err"), Frame("Eof"), Frame("Other"), Frame("Text")} \cup
    {TextFrame(e, x, t, f) :
        e \in Events(p), x \in {"none", RemoteCode}, t \in FrameTexts, f \in BOOLEAN}

\* One recognize call.  `chunks` is the number of audio chunks still to
\* send, `sent` the messages sent so far; the fields after `result` record
\* what the call has seen: whether the acknowledgment was read, whether a
\* well-formed frame with a non-empty text was read in the result loop, the
\* text of the latest result frame and of the latest one flagged final,
\* whether the frame that ends the collection was read, the stage
\* and the number of messages sent when the first frame with an error code
\* was read, and how, at which stage and with which transcript in hand the
\* socket was seen to end.
NewSess(p, n) ==
    [ provider   |-> p,
      pc         |-> "idle",
      audio_len  |-> n,
      chunks     |-> n,
      sent       |-> <<>>,
      calls      |-> 0,
      connects   |-> 0,
      final_text |-> "",
      result     |-> SessPending,
      acked      |-> FALSE,
      textSeen   |-> FALSE,
      lastText   |-> "none",
      lastEnd    |-> "none",
      ended      |-> FALSE,
      errStage   |-> "none",
      errSent    |-> 0,
      closeKind  |-> "none",
      closeStage |-> "none",
      closeText  |-> "" ]

NoSess == NewSess("none", 0)

\* A return that, after a Network failure on an open connection, connects
\* again (up to three times) instead of handing the failure to the caller.
SessReturn_reconnect(s, res) ==
    IF res.kind = "Network" /\ s.connects \in 1 .. 2
    THEN [s EXCEPT !.pc = "connect", !.sent = <<>>, !.chunks = s.audio_len,
                   !.final_text = ""]
    ELSE [s EXCEPT !.pc = "done", !.result = res]

\* recognize returns.
SessReturn(s, res) == [s EXCEPT !.pc = "done", !.result = res]

\* dashscope.rs:157-163: "{code}: {message}"; qwen.rs:149-151: error.message.
ApiError(p, code) ==
    IF p = "DashScope" THEN SessErr("Api", <<code, RemoteMessage>>)
    ELSE SessErr("Api", <<RemoteMessage>>)

\* An acknowledgment wait that any well-formed frame without an error code
\* ends, whatever its event.
ack_wait_any_event(s, m) ==
    IF m.kind = "Text" THEN
        IF ~m.parse THEN SessReturn(s, SessErr("Api", <<"parse">>))
        ELSE IF m.error # "none" THEN SessReturn(s, ApiError(s.provider, m.error))
        ELSE [s EXCEPT !.pc = "stream"]
    ELSE IF m.kind = "Close" THEN SessReturn(s, SessErr("Network", <<"closed">>))
    ELSE IF m.kind = "Err" THEN SessReturn(s, SessErr("Network", <<"transport">>))
    ELSE IF m.kind = "Eof" THEN SessReturn(s, SessErr("Api", <<"no-ack">>))
    ELSE s

\* dashscope.rs:149-182 / qwen.rs:141-177: one frame read while waiting for
\* the acknowledgment; Qwen then refuses empty audio.
ack_wait(s, m) ==
    IF m.kind = "Text" THEN
        IF ~m.parse THEN SessReturn(s, SessErr("Api", <<"parse">>))
        ELSE IF m.error # "none" THEN SessReturn(s, ApiError(s.provider, m.error))
        ELSE IF m.event \in AckEvents(s.provider) THEN
            IF s.provider = "Qwen" /\ s.audio_len = 0
            THEN SessReturn(s, SessErr("Encoding", <<"empty">>))
            ELSE [s EXCEPT !.pc = "stream"]
        ELSE s
    ELSE IF m.kind = "Close" THEN SessReturn(s, SessErr("Network", <<"closed">>))
    ELSE IF m.kind = "Err" THEN SessReturn(s, SessErr("Network", <<"transport">>))
    ELSE IF m.kind = "Eof" THEN SessReturn(s, SessErr("Api", <<"no-ack">>))
    ELSE s

\* dashscope.rs:221-273: one frame read while collecting results.
dashscope_drain(s, m) ==
    IF m.kind = "Text" THEN
        IF ~m.parse THEN SessReturn(s, SessErr("Api", <<"parse">>))
        ELSE IF m.error # "none" THEN SessReturn(s, ApiError(s.provider, m.error))
        ELSE IF m.event = "result-generated" THEN
            IF m.text # "none" /\ (m.fin \/ s.final_text = "")
            THEN [s EXCEPT !.final_text = m.text] ELSE s
        ELSE IF m.event = "task-finished" THEN SessReturn(s, SessOk(s.final_text))
        ELSE s
    ELSE IF m.kind \in {"Close", "Eof"} THEN SessReturn(s, SessOk(s.final_text))
    ELSE IF m.kind = "Err" THEN SessReturn(s, SessErr("Network", <<"transport">>))
    ELSE s

\* A result loop in which the completed transcript does not replace a
\* provisional one already held.
qwen_drain_keep_provisional(s, m) ==
    IF m.kind = "Text" THEN
        IF ~m.parse THEN SessReturn(s, SessErr("Api", <<"parse">>))
        ELSE IF m.error # "none" THEN SessReturn(s, ApiError(s.provider, m.error))
        ELSE IF m.event = "transcription.completed" THEN
            SessReturn(s, SessOk(IF m.text # "none" /\ s.final_text = ""
                                 THEN m.text ELSE s.final_text))
        ELSE IF m.event = "transcription.text" THEN
            IF m.text # "none" THEN [s EXCEPT !.final_text = m.text] ELSE s
        ELSE s
    ELSE IF m.kind \in {"Close", "Eof"} THEN SessReturn(s, SessOk(s.final_text))
    ELSE IF m.kind = "Err" THEN SessReturn(s, SessErr("Network", <<"transport">>))
    ELSE s

\* qwen.rs:216-261: one frame read while collecting results.
qwen_drain(s, m) ==
    IF m.kind = "Text" THEN
        IF ~m.parse THEN SessReturn(s, SessErr("Api", <<"parse">>))
        ELSE IF m.error # "none" THEN SessReturn(s, ApiError(s.provider, m.error))
        ELSE IF m.event = "transcription.completed" THEN
            SessReturn(s, SessOk(IF m.text # "none" THEN m.text ELSE s.final_text))
        ELSE IF m.event = "transcription.text" THEN
            IF m.text # "none" THEN [s EXCEPT !.final_text = m.text] ELSE s
        ELSE s
    ELSE IF m.kind \in {"Close", "Eof"} THEN SessReturn(s, SessOk(s.final_text))
    ELSE IF m.kind = "Err" THEN SessReturn(s, SessErr("Network", <<"transport">>))
    ELSE s

\* A result loop that stores the text of a final message and reads on.
funasr_drain_no_break(s, m) ==
    IF m.kind = "Text" THEN
        IF ~m.parse THEN s
        ELSE [s EXCEPT !.final_text = IF m.text # "none" THEN m.text ELSE @]
    ELSE IF m.kind \in {"Close", "Eof"} THEN SessReturn(s, SessOk(s.final_text))
    ELSE IF m.kind = "Err" THEN
        IF s.final_text = ""
        THEN SessReturn(s, SessErr("Network", <<"transport">>))
        ELSE SessReturn(s, SessOk(s.final_text))
    ELSE s

\* funasr.rs:121-153: one frame read while collecting results.  A frame that
\* does not parse is skipped; FunAsrResponse has no error field, so an error
\* code in the frame is not looked at.
funasr_drain(s, m) ==
    IF m.kind = "Text" THEN
        IF ~m.parse THEN s
        ELSE LET text == IF m.text # "none" THEN m.text ELSE s.final_text
             IN IF m.fin \/ m.event = "offline"
                THEN SessReturn(s, SessOk(text))
                ELSE [s EXCEPT !.final_text = text]
    ELSE IF m.kind \in {"Close", "Eof"} THEN SessReturn(s, SessOk(s.final_text))
    ELSE IF m.kind = "Err" THEN
        IF s.final_text = ""
        THEN SessReturn(s, SessErr("Network", <<"transport">>))
        ELSE SessReturn(s, SessOk(s.final_text))
    ELSE s

drain(s, m) ==
    IF s.provider = "DashScope" THEN dashscope_drain(s, m)
    ELSE IF s.provider = "Qwen" THEN qwen_drain(s, m)
    ELSE funasr_drain(s, m)

\* ------------------------------------------------------ the streaming stage
\* dashscope.rs:185, funasr.rs:100, qwen.rs:182: the chunk size each client
\* computes; `rate * 2` is a usize product of a u32, which cannot overflow
\* on the 64-bit targets, and Qwen does not look at its _sample_rate.
chunk_size(p, sample_rate) ==
    IF p = "DashScope" THEN (sample_rate * 2) \div 10
    ELSE IF p = "FunAsr" THEN (sample_rate * 2) \div 5
    ELSE 3200

\* The encoded buffer of n bytes; byte i is i modulo 256, so that a frame
\* shows where it was cut from.
Audio(n) == [i \in 1 .. n |-> i % 256]

\* slice::chunks(size).next() on a non-empty rest: the first `size` bytes,
\* or all of it when it is shorter.
next_chunk(rest, size) == SubSeq(rest, 1, IF Len(rest) < size THEN Len(rest) ELSE size)

after_chunk(rest, size) ==
    SubSeq(rest, (IF Len(rest) < size THEN Len(rest) ELSE size) + 1, Len(rest))

\* The streaming stage of one recognize call: `rest` is what chunks() has
\* not yielded yet, `frames` the payloads sent (for Qwen, before base64).
NewStream(p, sample_rate, n) ==
    [ provider    |-> p,
      sample_rate |-> sample_rate,
      audio       |-> Audio(n),
      pc          |-> "begin",
      size        |-> 0,
      rest        |-> Audio(n),
      frames      |-> <<>> ]

NoStream == NewStream("none", 0, 0)

\* ------------------------------------------------------------- the probe
\* One test_api call: `setupOk` says whether the api key makes a valid
\* header (DashScope, Qwen) or the TLS connector can be built (FunASR),
\* `waited` counts the seconds the call has been pending, `status` is the
\* HTTP status it was answered with, `sent` the recognition-protocol
\* messages it has put on a socket.
NewProbe(p, setupOk) ==
    [ provider |-> p,
      setupOk  |-> setupOk,
      pc       |-> "idle",
      waited   |-> 0,
      status   |-> 0,
      sent     |-> <<>>,
      result   |-> SessPending ]

NoProbe == NewProbe("none", TRUE)

\* ------------------------------------------------------------ the keyboard
\* One keyboard and one binding, watched by the macOS tap callback and by
\* the Windows polling loop: the keys physically down, the Caps Lock toggle,
\* the flags of the two listeners, the triggers each has produced, and the
\* last raw event together with the value the callback's match computed
\* for it.
NewKbd(binding) ==
    [ binding |-> binding,
      down    |-> {},
      caps    |-> FALSE,
      mac     |-> NewListener(binding),
      win     |-> NewListener(binding),
      macLog  |-> <<>>,
      winLog  |-> <<>>,
      ev      |-> RawEvent("none", "none", {}),
      seen    |-> "ignore",
      n       |-> 0 ]

NoKbd == [NewKbd(HotkeyBinding("Alt", {})) EXCEPT !.seen = "off"]

\* ------------------------------------------------------------------ Init
InitHotkeyIdle ==
    /\ keysDown = {}
    /\ frontPid = NoPid
    /\ senderSet = FALSE
    /\ reloadChan = <<>>
    /\ stopSignal = FALSE
    /\ listener = NoListener
    /\ threads = {}
    /\ trigLog = <<>>
    /\ edges = NoEdges
    /\ session = NoSession
    /\ presses = 0
    /\ saves = 0
    /\ events = [e \in EdgeIds |-> <<>>]

InitPipelineIdle ==
    /\ recorder = IdleRecorder
    /\ lockPoisoned = FALSE
    /\ tasks = {}
    /\ calls = 0
    /\ outputs = <<>>

InitGateIdle ==
    /\ gateIn = <<>>
    /\ gateOut = "unset"
    /\ sess = NoSess
    /\ stream = NoStream
    /\ probe = NoProbe
    /\ kbd = NoKbd

\* lib.rs:64-100 setup: the config is loaded, the pipeline is created (or
\* not, when the recorder cannot be constructed) and the hotkey thread is
\* spawned with the loaded binding.
Init ==
    /\ platform \in {"macos", "windows"}
    /\ pipelineAvail \in BOOLEAN
    /\ config \in HotkeyConfigs
    /\ current_binding = config.binding
    /\ supPc = "init"
    /\ InitHotkeyIdle
    /\ InitPipelineIdle
    /\ InitGateIdle

\* ======================================================= pipeline operations
\* What recorder.start() can do: succeed, fail to acquire the device (only
\* when it is not running yet), or panic with the write guard held.
StartOutcomes(r, env) ==
    env.starts \cap (IF r.state = "Idle" THEN {"ok", "err", "panic"} ELSE {"ok", "panic"})

\* write() of voice.rs:45 gets the recorder lock only while no invocation
\* holds a guard of it.
RecorderLockFree == \A t \in tasks : t.guard = "none"

\* voice.rs:44-50 VoicePipeline::start_recording.  A poisoned lock makes it
\* return Err before the recorder is touched; a panic inside recorder.start()
\* poisons the lock.
start_recording(out) ==
    /\ RecorderLockFree
    /\ IF lockPoisoned THEN UNCHANGED <<recorder, lockPoisoned>>
       ELSE IF out = "ok" THEN recorder' = recorder_start(recorder) /\ UNCHANGED lockPoisoned
       ELSE IF out = "err" THEN UNCHANGED <<recorder, lockPoisoned>>
       ELSE lockPoisoned' = TRUE /\ UNCHANGED recorder

\* The capture callback appends one sample while the recorder is Recording.
Capture(env) ==
    /\ recorder.state = "Recording"
    /\ Len(recorder.buffer) < MaxSamples
    /\ \E x \in env.samples : recorder' = [recorder EXCEPT !.buffer = Append(@, x)]
    /\ UNCHANGED <<hotkeyVars, gateVars, pipelineAvail, config, lockPoisoned, tasks, calls, outputs>>

\* stop_entry without the empty-buffer return.
stop_entry_no_empty_check(t, out, poisoned, r) ==
    IF poisoned THEN Return(t, Err("Other", "lock"))
    ELSE LET t1 == unlocked([Logged(locked(t, "write"), "stop") EXCEPT !.stopped = TRUE])
         IN IF out = "err" THEN Return(t1, Err("Audio", "stop"))
            ELSE [Logged(t1, "buffer") EXCEPT !.pc = "config", !.samples = r.buffer]

\* voice.rs:56-68: the write lock, recorder.stop() and the empty-buffer check.
\* `out` is what recorder.stop() returns.
stop_entry(t, out, poisoned, r) ==
    IF poisoned THEN Return(t, Err("Other", "lock"))
    ELSE LET t1 == unlocked([Logged(locked(t, "write"), "stop") EXCEPT !.stopped = TRUE])
         IN IF out = "err" THEN Return(t1, Err("Audio", "stop"))
            ELSE IF r.buffer = <<>> THEN Return(Logged(t1, "buffer"), Ok(""))
            ELSE [Logged(t1, "buffer") EXCEPT !.pc = "config", !.samples = r.buffer]

\* The task t goes on as t2.
Becomes(t, t2) == tasks' = (tasks \ {t}) \cup {t2}

TaskEntry(t, env) ==
    /\ t.pc = "entry"
    /\ \E out \in env.stops :
          Becomes(t, [stop_entry(t, out, lockPoisoned, recorder) EXCEPT
                        !.drained = IF ~lockPoisoned /\ out = "ok"
                                    THEN Len(recorder.buffer) ELSE -1])
    /\ recorder' = IF lockPoisoned THEN recorder ELSE recorder_stop(recorder)
    /\ UNCHANGED <<hotkeyVars, gateVars, pipelineAvail, config, lockPoisoned, calls, outputs>>

\* create_and_recognize that calls recognize whatever the factory answered.
create_and_recognize_unchecked(t) ==
    [Logged(Logged(t, "create"), "recognize") EXCEPT !.pc = "recognize"]

\* voice.rs:126-127: the factory, then the recognize call begins.
create_and_recognize(t) ==
    IF create_asr_service(t.cfg)
    THEN [Logged(Logged(t, "create"), "recognize") EXCEPT !.pc = "recognize"]
    ELSE Return(Logged(t, "create"), Err("Asr", "create"))

\* after_config with the recognition moved ahead of the gate's errors.
after_config_no_gate(t, cfg, poisoned) ==
    LET t0 == [t EXCEPT !.cfg = cfg]
        t1 == unlocked(locked(t0, "read"))
    IN IF poisoned THEN Return(t0, Err("Other", "lock"))
       ELSE IF cfg.provider = "OpenAIWhisper" THEN [Logged(t1, "gate") EXCEPT !.pc = "channels"]
       ELSE create_and_recognize(Logged(t1, "encode"))

\* voice.rs:70-127 for the PCM providers, up to the channel-count read for
\* the WAV provider: config snapshot, sample-rate read under the read lock,
\* amplitude gate, encode_to_pcm, factory.
after_config(t, cfg, poisoned) ==
    LET t0 == [t EXCEPT !.cfg = cfg]
        t1 == Logged(unlocked(locked(t0, "read")), "gate")
        g  == amplitude_gate(t.samples)
    IN IF poisoned THEN Return(t0, Err("Other", "lock"))
       ELSE IF g = "silent" THEN Return(t1, Err("Other", "silent"))
       ELSE IF g = "quiet" THEN Return(t1, Err("Other", "quiet"))
       ELSE IF cfg.provider = "OpenAIWhisper" THEN [t1 EXCEPT !.pc = "channels"]
       ELSE create_and_recognize(Logged(t1, "encode"))

TaskConfig(t) ==
    /\ t.pc = "config"
    /\ Becomes(t, after_config(t, config, lockPoisoned))
    /\ UNCHANGED <<hotkeyVars, gateVars, pipelineAvail, config, recorder, lockPoisoned, calls, outputs>>

\* voice.rs:113-127 for the WAV provider: channel-count read under the read
\* lock, encode_to_wav (`out`), factory.
after_channels(t, out, poisoned) ==
    IF poisoned THEN Return(t, Err("Other", "lock"))
    ELSE LET t1 == unlocked(locked(t, "read"))
         IN IF out = "err" THEN Return(Logged(t1, "encode"), Err("Audio", "encode"))
            ELSE create_and_recognize(Logged(t1, "encode"))

TaskChannels(t, env) ==
    /\ t.pc = "channels"
    /\ \E out \in env.encodes : Becomes(t, after_channels(t, out, lockPoisoned))
    /\ UNCHANGED <<hotkeyVars, gateVars, pipelineAvail, config, recorder, lockPoisoned, calls, outputs>>

\* The output_text call of voice.rs:151-156, with the invocation that makes
\* it and the release edge that invocation serves.
OutputCall(t, final) ==
    [task |-> t.id, edge |-> t.edge, text |-> final, pid |-> t.pid,
     restore_clipboard |-> t.cfg.restore_clipboard]

\* deliver with output errors logged and swallowed.
deliver_swallow(t, final, outOk) ==
    IF final # ""
    THEN Return([Logged(t, "output") EXCEPT !.emitted = @ + 1], Ok(final))
    ELSE Return(t, Ok(final))

\* voice.rs:148-168: output when the final text is not empty, then return.
deliver(t, final, outOk) ==
    IF final # ""
    THEN Return([Logged(t, "output") EXCEPT !.emitted = @ + 1],
                IF outOk THEN Ok(final) ELSE Err("Output", "paste"))
    ELSE Return(t, Ok(final))

\* The task t, now t1, delivers `final` and returns.
Delivered(t, t1, final, env) ==
    \E outOk \in env.outputs :
        /\ Becomes(t, [deliver(t1, final, outOk) EXCEPT
                          !.outOk = IF final = "" THEN "-"
                                    ELSE IF outOk THEN "ok" ELSE "failed"])
        /\ outputs' = IF final # "" THEN Append(outputs, OutputCall(t1, final))
                      ELSE outputs

RecognizeOutcomes ==
    {[ok |-> TRUE, v |-> x] : x \in Transcripts} \cup
    {[ok |-> FALSE, v |-> e] : e \in AsrErrors}

\* wants_refine without the check for an empty transcript.
wants_refine_any_text(cfg, text) == cfg.llm_enabled /\ create_llm_service(cfg)

\* wants_refine reading the shared configuration instead of the snapshot.
wants_refine_live(cfg, text) ==
    config.llm_enabled /\ text # "" /\ create_llm_service(config)

\* voice.rs:134-135: refinement is attempted.
wants_refine(cfg, text) == cfg.llm_enabled /\ text # "" /\ create_llm_service(cfg)

\* voice.rs:127-146: the recognize call answers `res`.
TaskRecognized(t, env) ==
    /\ t.pc = "recognize"
    /\ \E res \in env.recognitions :
          LET t1 == [t EXCEPT !.text = IF res.ok THEN res.v ELSE "",
                               !.answer = IF res.ok THEN "ok" ELSE res.v]
          IN IF ~res.ok
             THEN /\ Becomes(t, Return(t1, Err("Asr", res.v)))
                  /\ UNCHANGED outputs
             ELSE IF wants_refine(t.cfg, res.v)
             THEN /\ Becomes(t, [Logged(t1, "refine") EXCEPT !.pc = "refine"])
                  /\ UNCHANGED outputs
             ELSE Delivered(t, t1, res.v, env)
    /\ UNCHANGED <<hotkeyVars, gateVars, pipelineAvail, config, recorder, lockPoisoned, calls>>

\* refined_text that loses the transcript when refinement fails.
refined_text_drop(text, res) == IF res = "fail" THEN "" ELSE res

\* voice.rs:136-144: Ok(refined) replaces the text, Err keeps it.
refined_text(text, res) == IF res = "fail" THEN text ELSE res

\* voice.rs:136-146: the refine_text call answers `res`.
TaskRefined(t, env) ==
    /\ t.pc = "refine"
    /\ \E res \in env.refinements :
          Delivered(t, [t EXCEPT !.refine = IF res = "fail" THEN "failed" ELSE "ok"],
                    refined_text(t.text, res), env)
    /\ UNCHANGED <<hotkeyVars, gateVars, pipelineAvail, config, recorder, lockPoisoned, calls>>

\* The caller of stop_and_process has its result (macos.rs:368-377,
\* windows.rs:213-221) and the invocation is over.
\* outcome_event that reports every result as a success.
outcome_event_complete(t) == Event("processing-complete", NoMsg)

\* macos.rs:369-377 / windows.rs:213-221: the event for the result.
outcome_event(t) ==
    IF t.result.kind = "Ok"
    THEN Event("processing-complete", NoMsg)
    ELSE Event("processing-error", t.result.err)

TaskDone(t) ==
    /\ t.pc = "done"
    /\ tasks' = tasks \ {t}
    /\ events' = IF t.edge # 0 THEN Emitted(events, t.edge, <<outcome_event(t)>>) ELSE events
    /\ UNCHANGED <<hotkeyCore, gateVars, pipelineAvail, config, recorder, lockPoisoned, calls, outputs>>

TaskStep(env) ==
    \E t \in tasks :
        \/ TaskEntry(t, env)
        \/ TaskConfig(t)
        \/ TaskChannels(t, env)
        \/ TaskRecognized(t, env)
        \/ TaskRefined(t, env)
        \/ TaskDone(t)

\* Everything the boundaries can answer; the samples are one of each class.
FullEnv ==
    [ samples      |-> {0, -10, 500},
      starts       |-> {"ok", "err", "panic"},
      stops        |-> {"ok", "err"},
      encodes      |-> {"ok", "err"},
      recognitions |-> RecognizeOutcomes,
      refinements  |-> Refinements \cup {"fail"},
      outputs      |-> BOOLEAN ]

\* The answers the whole-system specification draws from.
HotkeyEnv ==
    [ samples      |-> {500},
      starts       |-> {"ok", "panic"},
      stops        |-> {"ok"},
      encodes      |-> {"ok"},
      recognitions |-> {[ok |-> TRUE, v |-> "hello"], [ok |-> FALSE, v |-> "Network"]},
      refinements  |-> {"fail"},
      outputs      |-> {TRUE} ]

\* ========================================================= hotkey operations
\* macos.rs:340-351 / windows.rs:191-200 start_recording(app_handle): the
\* pipeline is started when there is one.
hotkey_start_recording(out) ==
    IF pipelineAvail THEN start_recording(out) ELSE UNCHANGED <<recorder, lockPoisoned>>

\* macos.rs:342-349 / windows.rs:192-198: the events start_recording(app_handle)
\* emits when recorder.start() answers `out`.
start_events(out) ==
    <<Event("recording-started", NoMsg)>> \o
    (IF pipelineAvail /\ lockPoisoned
        THEN <<Event("processing-error", <<"Other", "lock">>)>>
     ELSE IF pipelineAvail /\ out = "err"
        THEN <<Event("processing-error", <<"Audio", "start">>)>>
     ELSE <<>>)

\* macos.rs:146-226: the tap callback runs for one raw event.  `s` is the
\* bookkeeping before the callback.
Callback(ev, s) ==
    LET v == mac_key_pressed(listener.binding, ev)
        r == handle_key_state_change(v = "down", listener, frontPid)
    IN IF v = "ignore"
       THEN /\ session' = s
            /\ UNCHANGED <<listener, threads, trigLog, edges>>
       ELSE /\ listener' = r.l
            /\ threads' = IF r.trig = "none" THEN threads
                          ELSE threads \cup {Thread(s.trigs + 1, r.trig, r.pid)}
            /\ trigLog' = Logged2(trigLog, r.trig)
            /\ edges' = Observed(edges, v = "down")
            /\ session' = Captured(Triggered(s, r.trig, listener.binding), r.trig, frontPid)

\* The raw event a key going down or up produces.
KeyEvent(k, isDown, down) ==
    RawEvent(IF is_modifier(k) THEN "FlagsChanged" ELSE IF isDown THEN "KeyDown" ELSE "KeyUp",
             k, EventFlags(down))

\* A tap whose callback is not run while a stop_and_process is in flight.
TapRunning_waits ==
    platform = "macos" /\ listener.alive /\ \A t \in tasks : t.pc = "done"

TapRunning == platform = "macos" /\ listener.alive

\* The user presses a key.
Press(k) ==
    /\ k \notin keysDown
    /\ presses < MaxPresses
    /\ keysDown' = keysDown \cup {k}
    /\ presses' = presses + 1
    /\ IF TapRunning
       THEN Callback(KeyEvent(k, TRUE, keysDown'), session)
       ELSE UNCHANGED <<listener, threads, trigLog, edges, session>>
    /\ UNCHANGED <<events, platform, frontPid, senderSet, reloadChan, supPc, current_binding,
                   stopSignal, saves, pipelineVars, gateVars>>

\* The user releases a key.
Release(k) ==
    /\ k \in keysDown
    /\ keysDown' = keysDown \ {k}
    /\ IF TapRunning
       THEN Callback(KeyEvent(k, FALSE, keysDown'), KeyWentUp(session, k))
       ELSE /\ session' = KeyWentUp(session, k)
            /\ UNCHANGED <<listener, threads, trigLog, edges>>
    /\ UNCHANGED <<events, platform, frontPid, senderSet, reloadChan, supPc, current_binding,
                   stopSignal, presses, saves, pipelineVars, gateVars>>

\* A held ordinary key auto-repeats: another KeyDown with the present flags.
KeyRepeat(k) ==
    /\ TapRunning
    /\ k \in keysDown
    /\ ~is_modifier(k)
    /\ Callback(KeyEvent(k, TRUE, keysDown), session)
    /\ UNCHANGED <<events, platform, keysDown, frontPid, senderSet, reloadChan, supPc,
                   current_binding, stopSignal, presses, saves, pipelineVars, gateVars>>

\* A flags-changed notification that repeats the present flags (the second
\* of two keys carrying the same flag, a flag outside the binding).
FlagsNotify ==
    /\ TapRunning
    /\ Callback(RawEvent("FlagsChanged", "none", EventFlags(keysDown)), session)
    /\ UNCHANGED <<events, platform, keysDown, frontPid, senderSet, reloadChan, supPc,
                   current_binding, stopSignal, presses, saves, pipelineVars, gateVars>>

\* Another application comes to the foreground (read by macos.rs:314 only).
FocusChange(p) ==
    /\ platform = "macos"
    /\ p # frontPid
    /\ frontPid' = p
    /\ UNCHANGED <<events, platform, keysDown, senderSet, reloadChan, supPc, current_binding,
                   listener, stopSignal, threads, trigLog, edges, session, presses,
                   saves, pipelineVars, gateVars>>

\* macos.rs:272-290: the run loop returns and the stop signal is there.
MacStop ==
    /\ platform = "macos"
    /\ listener.alive
    /\ stopSignal
    /\ listener' = [listener EXCEPT !.alive = FALSE]
    /\ stopSignal' = FALSE
    /\ UNCHANGED <<events, platform, keysDown, frontPid, senderSet, reloadChan, supPc,
                   current_binding, threads, trigLog, edges, session, presses, saves,
                   pipelineVars, gateVars>>

\* windows.rs:130-136: the top of the polling loop, stop_rx.try_recv().
WinCheck ==
    /\ platform = "windows"
    /\ listener.alive
    /\ listener.pc = "check"
    /\ listener' = IF stopSignal THEN [listener EXCEPT !.alive = FALSE]
                   ELSE [listener EXCEPT !.pc = "poll"]
    /\ stopSignal' = FALSE
    /\ UNCHANGED <<events, platform, keysDown, frontPid, senderSet, reloadChan, supPc,
                   current_binding, threads, trigLog, edges, session, presses, saves,
                   pipelineVars, gateVars>>

\* windows.rs:138-174: one poll.  start_recording runs on the listener
\* thread itself, so a panic inside it ends the listener; stop_recording is
\* handed to a new thread.
WinPoll(env) ==
    /\ platform = "windows"
    /\ listener.alive
    /\ listener.pc = "poll"
    /\ LET active == hotkey_active(listener.binding, keysDown)
           r == win_edge(active, listener)
       IN /\ \E out \in StartOutcomes(recorder, env) :
                /\ IF r.trig = "start"
                   THEN /\ hotkey_start_recording(out)
                        /\ events' = Emitted(events, session.trigs + 1, start_events(out))
                   ELSE UNCHANGED <<recorder, lockPoisoned, events>>
                /\ listener' =
                      IF r.trig = "start" /\ pipelineAvail /\ ~lockPoisoned /\ out = "panic"
                      THEN [r.l EXCEPT !.alive = FALSE]
                      ELSE [r.l EXCEPT !.pc = "check"]
          /\ threads' = IF r.trig = "stop"
                        THEN threads \cup {Thread(session.trigs + 1, "stop", r.pid)}
                        ELSE threads
          /\ trigLog' = Logged2(trigLog, r.trig)
          /\ edges' = Observed(edges, active)
          /\ session' = Triggered(session, r.trig, listener.binding)
    /\ UNCHANGED <<platform, keysDown, frontPid, senderSet, reloadChan, supPc,
                   current_binding, stopSignal, presses, saves, pipelineAvail, config,
                   tasks, calls, outputs, gateVars>>

\* A spawned thread runs: macos.rs:319-321 start_recording, macos.rs:333-335 /
\* windows.rs:167-169 stop_recording, which begins a stop_and_process when
\* there is a pipeline.
RunThread(j, env) ==
    /\ j \in threads
    /\ threads' = threads \ {j}
    /\ IF j.kind = "start"
       THEN /\ \E out \in StartOutcomes(recorder, env) :
                  /\ hotkey_start_recording(out)
                  /\ events' = Emitted(events, j.id, start_events(out))
            /\ UNCHANGED <<tasks, calls>>
       ELSE /\ events' = Emitted(events, j.id, <<Event("recording-stopped", NoMsg)>>)
            /\ IF pipelineAvail
               THEN /\ tasks' = tasks \cup {[NewTask(calls + 1, j.pid) EXCEPT !.edge = j.id]}
                    /\ calls' = calls + 1
               ELSE UNCHANGED <<tasks, calls>>
            /\ UNCHANGED <<recorder, lockPoisoned>>
    /\ UNCHANGED <<platform, keysDown, frontPid, senderSet, reloadChan, supPc,
                   current_binding, listener, stopSignal, trigLog, edges, session,
                   presses, saves, pipelineAvail, config, outputs, gateVars>>

\* hotkey/mod.rs:33-36: the supervisor creates the channel and publishes the
\* sender.
SupInit ==
    /\ supPc = "init"
    /\ senderSet' = TRUE
    /\ supPc' = "spawn"
    /\ UNCHANGED <<events, platform, keysDown, frontPid, reloadChan, current_binding, listener,
                   stopSignal, threads, trigLog, edges, session, presses, saves,
                   pipelineVars, gateVars>>

\* hotkey/mod.rs:44-52 / 71-78: a listener thread is spawned with the
\* current binding and a fresh stop channel.
SupSpawn ==
    /\ supPc = "spawn"
    /\ listener' = NewListener(current_binding)
    /\ stopSignal' = FALSE
    /\ trigLog' = <<>>
    /\ edges' = NoEdges
    /\ supPc' = "wait"
    /\ UNCHANGED <<events, platform, keysDown, frontPid, senderSet, reloadChan, current_binding,
                   threads, session, presses, saves, pipelineVars, gateVars>>

\* hotkey/mod.rs:55-59 / 80-83: a new binding is received and the stop signal
\* is sent.
SupRecv ==
    /\ supPc = "wait"
    /\ reloadChan # <<>>
    /\ current_binding' = Head(reloadChan)
    /\ reloadChan' = Tail(reloadChan)
    /\ stopSignal' = TRUE
    /\ supPc' = "join"
    /\ session' = IF session.active /\ session.holdStarts > 0
                  THEN [session EXCEPT !.straddled = TRUE] ELSE session
    /\ UNCHANGED <<events, platform, keysDown, frontPid, senderSet, listener, threads, trigLog,
                   edges, presses, saves, pipelineVars, gateVars>>

\* SupJoin that also waits for the stop_and_process invocations in flight.
SupJoin_waits_tasks ==
    /\ supPc = "join"
    /\ ~listener.alive
    /\ tasks = {}
    /\ supPc' = "spawn"
    /\ UNCHANGED <<events, platform, keysDown, frontPid, senderSet, reloadChan, current_binding,
                   listener, stopSignal, threads, trigLog, edges, session, presses,
                   saves, pipelineVars, gateVars>>

\* SupJoin that does not wait for the listener thread to end.
SupJoin_no_wait ==
    /\ supPc = "join"
    /\ supPc' = "spawn"
    /\ UNCHANGED <<events, platform, keysDown, frontPid, senderSet, reloadChan, current_binding,
                   listener, stopSignal, threads, trigLog, edges, session, presses,
                   saves, pipelineVars, gateVars>>

\* hotkey/mod.rs:61 / 84: listener_handle.join() returns.
SupJoin ==
    /\ supPc = "join"
    /\ ~listener.alive
    /\ supPc' = "spawn"
    /\ UNCHANGED <<events, platform, keysDown, frontPid, senderSet, reloadChan, current_binding,
                   listener, stopSignal, threads, trigLog, edges, session, presses,
                   saves, pipelineVars, gateVars>>

\* hotkey/mod.rs:23-28 reload_hotkey: dropped while no sender is published.
reload_hotkey(chan, b) == IF senderSet THEN Append(chan, b) ELSE chan

\* commands/config.rs:16-32 save_config; `ok` is whether storage::save_config
\* succeeds.
SaveConfig(dom) ==
    /\ saves < MaxSaves
    /\ saves' = saves + 1
    /\ \E c \in dom, ok \in BOOLEAN :
          IF ok
          THEN /\ config' = c
               /\ reloadChan' = reload_hotkey(reloadChan, c.binding)
          ELSE UNCHANGED <<config, reloadChan>>
    /\ UNCHANGED <<events, platform, keysDown, frontPid, senderSet, supPc, current_binding,
                   listener, stopSignal, threads, trigLog, edges, session, presses,
                   pipelineAvail, recorder, lockPoisoned, tasks, calls, outputs, gateVars>>

Next ==
    \/ \E k \in Keys : Press(k)
    \/ \E k \in Keys : Release(k)
    \/ \E k \in Keys : KeyRepeat(k)
    \/ FlagsNotify
    \/ \E p \in FrontPids : FocusChange(p)
    \/ MacStop
    \/ WinCheck
    \/ WinPoll(HotkeyEnv)
    \/ \E j \in threads : RunThread(j, HotkeyEnv)
    \/ SupInit
    \/ SupSpawn
    \/ SupRecv
    \/ SupJoin
    \/ SaveConfig(HotkeyConfigs)
    \/ Capture(HotkeyEnv)
    \/ TaskStep(HotkeyEnv)

Spec == Init /\ [][Next]_vars

\* ============================================ the pipeline under any caller
\* VoicePipeline's two public operations called in any order by any caller
\* (the hotkey layer, the commands of lib.rs:114-115), every configuration
\* and every answer of the boundaries.
InitPipeline ==
    /\ platform = "none"
    /\ pipelineAvail = TRUE
    /\ config \in PipelineConfigs
    /\ current_binding = config.binding
    /\ supPc = "off"
    /\ InitHotkeyIdle
    /\ InitPipelineIdle
    /\ InitGateIdle

CallStart(env) ==
    /\ \E out \in StartOutcomes(recorder, env) : start_recording(out)
    /\ UNCHANGED <<hotkeyVars, gateVars, pipelineAvail, config, tasks, calls, outputs>>

CallStop(pid) ==
    /\ calls < MaxCalls
    /\ tasks' = tasks \cup {NewTask(calls + 1, pid)}
    /\ calls' = calls + 1
    /\ UNCHANGED <<hotkeyVars, gateVars, pipelineAvail, config, recorder, lockPoisoned, outputs>>

NextPipeline ==
    \/ CallStart(FullEnv)
    \/ \E pid \in FrontPids : CallStop(pid)
    \/ Capture(FullEnv)
    \/ TaskStep(FullEnv)

SpecPipeline == InitPipeline /\ [][NextPipeline]_vars

\* ================================================= the gate as a function
\* The amplitudes around the two thresholds, and a negative one.
SampleVals == {-500, 0, 9, 10, 499, 500}

RECURSIVE SeqsUpTo(_, _)
SeqsUpTo(S, n) ==
    IF n = 0 THEN {<<>>}
    ELSE LET shorter == SeqsUpTo(S, n - 1)
         IN shorter \cup {Append(q, x) : q \in shorter, x \in S}

InitGate ==
    /\ platform = "none"
    /\ pipelineAvail = TRUE
    /\ config = NoConfig
    /\ current_binding = config.binding
    /\ supPc = "off"
    /\ InitHotkeyIdle
    /\ InitPipelineIdle
    /\ gateIn \in SeqsUpTo(SampleVals, MaxGateLen)
    /\ gateOut = "unset"
    /\ sess = NoSess
    /\ stream = NoStream
    /\ probe = NoProbe
    /\ kbd = NoKbd

\* voice.rs:81-106 applied to the buffer gateIn.
ApplyGate ==
    /\ gateOut = "unset"
    /\ gateOut' = amplitude_gate(gateIn)
    /\ UNCHANGED <<hotkeyVars, pipelineVars, gateIn, sess, otherCalls>>

NextGate == ApplyGate

SpecGate == InitGate /\ [][NextGate]_vars

\* ================================================= one provider recognize call
MaxChunks == 2

SessIdle == <<hotkeyVars, pipelineVars, gateOnly, otherCalls>>

\* The configuration that selects provider p, with its key set and no
\* refinement (asr/mod.rs create_asr_service).
ProviderConfig(p) == AppConfig(HotkeyBinding("Alt", {}), p, TRUE, FALSE, FALSE, TRUE)

\* A recognize call of one of the three clients is about to be made with an
\* encoded buffer of one or more chunks (stop_and_process never gets here
\* with an empty buffer, voice.rs:84-87).
InitSession ==
    /\ sess \in {NewSess(p, n) : p \in SessionProviders, n \in 1 .. MaxChunks}
    /\ platform = "none"
    /\ pipelineAvail = TRUE
    /\ config = ProviderConfig(sess.provider)
    /\ current_binding = config.binding
    /\ supPc = "off"
    /\ InitHotkeyIdle
    /\ InitPipelineIdle
    /\ gateIn = <<>>
    /\ gateOut = "unset"
    /\ stream = NoStream
    /\ probe = NoProbe
    /\ kbd = NoKbd

\* voice.rs:127: stop_and_process calls recognize, once, and `?` returns its
\* error.
CallRecognize ==
    /\ sess.pc = "idle"
    /\ sess' = [sess EXCEPT !.pc = "request", !.calls = @ + 1]
    /\ UNCHANGED SessIdle

\* dashscope.rs:102-111, qwen.rs:96-109: the handshake request is built from
\* the api key (and model); funasr.rs:66: the TLS connector is built.  Either
\* can fail, which returns a Network error before any connection is tried.
BuildRequest ==
    /\ sess.pc = "request"
    /\ \E ok \in BOOLEAN :
        sess' = IF ok THEN [sess EXCEPT !.pc = "connect"]
                ELSE SessReturn(sess, SessErr("Network", <<"request">>))
    /\ UNCHANGED SessIdle

\* dashscope.rs:114-116, qwen.rs:112-114, funasr.rs:69-76: connect_async.
Connect ==
    /\ sess.pc = "connect"
    /\ \E ok \in BOOLEAN :
        LET s == [sess EXCEPT !.connects = @ + 1]
        IN sess' = IF ok THEN [s EXCEPT !.pc = "configure"]
                   ELSE SessReturn(s, SessErr("Network", <<"connect">>))
    /\ UNCHANGED SessIdle

\* write.send(..): the message goes out, or the send fails and recognize
\* returns the Network error.
send(s, what, next) ==
    {[s EXCEPT !.sent = Append(@, what), !.pc = next],
     SessReturn(s, SessErr("Network", <<"send">>))}

\* dashscope.rs:144-147 run-task, qwen.rs:136-139 session.update,
\* funasr.rs:94-97 start message; FunASR then streams at once.
SendConfigure ==
    /\ sess.pc = "configure"
    /\ sess' \in send(sess, "configure",
                      IF sess.provider = "FunAsr" THEN "stream" ELSE "ackwait")
    /\ UNCHANGED SessIdle

\* Frame m is a result of provider p: a result-generated event with a
\* sentence text (dashscope.rs:236-239), a transcription event with a
\* transcript (qwen.rs:227-237), a response with a text (funasr.rs:124).
result_frame(p, m) ==
    /\ m.kind = "Text" /\ m.parse /\ m.text # "none"
    /\ IF p = "DashScope" THEN m.error = "none" /\ m.event = "result-generated"
       ELSE IF p = "Qwen"
       THEN m.error = "none" /\ m.event \in {"transcription.text", "transcription.completed"}
       ELSE TRUE

\* The result frame m is flagged final: sentence_end (dashscope.rs:242), the
\* completed event (qwen.rs:227), is_final or mode offline (funasr.rs:129).
final_frame(p, m) ==
    IF p = "DashScope" THEN m.fin
    ELSE IF p = "Qwen" THEN m.event = "transcription.completed"
    ELSE m.fin \/ m.event = "offline"

\* Frame m ends the collection of results: task-finished (dashscope.rs:254),
\* the completed event (qwen.rs:227-232), is_final or mode offline
\* (funasr.rs:129-131).
closing_frame(p, m) ==
    /\ m.kind = "Text" /\ m.parse
    /\ IF p = "DashScope" THEN m.error = "none" /\ m.event = "task-finished"
       ELSE IF p = "Qwen" THEN m.error = "none" /\ m.event = "transcription.completed"
       ELSE m.fin \/ m.event = "offline"

\* What the call has seen once frame m is read at its current stage.
Observe(s, m) ==
    LET a == IF s.pc = "ackwait" /\ m.kind = "Text" /\ m.parse /\ m.error = "none"
                  /\ m.event \in AckEvents(s.provider)
             THEN [s EXCEPT !.acked = TRUE] ELSE s
        h == IF s.pc = "drain" /\ m.kind = "Text" /\ m.parse /\ m.text \notin {"none", ""}
             THEN [a EXCEPT !.textSeen = TRUE] ELSE a
        r == IF s.pc = "drain" /\ result_frame(s.provider, m)
             THEN [h EXCEPT !.lastText = m.text,
                            !.lastEnd = IF final_frame(s.provider, m) THEN m.text ELSE @]
             ELSE h
        c == IF s.pc = "drain" /\ closing_frame(s.provider, m)
             THEN [r EXCEPT !.ended = TRUE] ELSE r
        e == IF m.kind = "Text" /\ m.parse /\ m.error # "none" /\ s.errStage = "none"
             THEN [c EXCEPT !.errStage = s.pc, !.errSent = Len(s.sent)] ELSE c
    IN IF m.kind \in {"Close", "Err", "Eof"}
       THEN [e EXCEPT !.closeKind = m.kind, !.closeStage = s.pc,
                      !.closeText = s.final_text]
       ELSE e

\* dashscope.rs:150-182, qwen.rs:142-177: read.next() while waiting for the
\* acknowledgment.
RecvAck(m) ==
    /\ sess.pc = "ackwait"
    /\ sess' = ack_wait(Observe(sess, m), m)
    /\ UNCHANGED SessIdle

\* dashscope.rs:185-191, qwen.rs:182-197, funasr.rs:100-106: one audio chunk.
SendChunk ==
    /\ sess.pc = "stream"
    /\ sess.chunks > 0
    /\ sess' \in send([sess EXCEPT !.chunks = @ - 1], "audio", "stream")
    /\ UNCHANGED SessIdle

\* A finish signal that does not wait for the chunk loop to end.
SendFinish_early ==
    /\ sess.pc = "stream"
    /\ sess' \in send(sess, "finish", "drain")
    /\ UNCHANGED SessIdle

\* dashscope.rs:194-216 finish-task, qwen.rs:200-211 commit, funasr.rs:109-116
\* end message.
SendFinish ==
    /\ sess.pc = "stream"
    /\ sess.chunks = 0
    /\ sess' \in send(sess, "finish", "drain")
    /\ UNCHANGED SessIdle

\* dashscope.rs:221-268, qwen.rs:216-255, funasr.rs:121-147: read.next() while
\* collecting results.
RecvDrain(m) ==
    /\ sess.pc = "drain"
    /\ sess' = drain(Observe(sess, m), m)
    /\ UNCHANGED SessIdle

NextSession ==
    \/ CallRecognize
    \/ BuildRequest
    \/ Connect
    \/ SendConfigure
    \/ \E m \in ServerFrames(sess.provider) : RecvAck(m)
    \/ SendChunk
    \/ SendFinish
    \/ \E m \in ServerFrames(sess.provider) : RecvDrain(m)

SpecSession == InitSession /\ [][NextSession]_vars

\* The client's own steps are always taken; what the server sends, and
\* whether it sends anything, is up to the server.
SpecSessionLive ==
    /\ InitSession /\ [][NextSession]_vars
    /\ WF_vars(CallRecognize) /\ WF_vars(BuildRequest) /\ WF_vars(Connect)
    /\ WF_vars(SendConfigure) /\ WF_vars(SendChunk) /\ WF_vars(SendFinish)

\* ======================================== the streaming stage, byte by byte
MaxFrames == 2

\* The rates a recorder may report: the usual device rates and very small
\* ones.
SampleRates == {2, 4, 5, 10, 8000, 16000, 48000}

\* Buffer lengths around the multiples of the chunk size; encode_to_pcm
\* writes two bytes per sample, and stop_and_process never gets here with an
\* empty buffer (voice.rs:84-87).
StreamLens(size) ==
    {n \in {2, 4} \cup {k * size + d : k \in 1 .. MaxFrames, d \in {-2, 0, 2}} :
        n >= 2 /\ n % 2 = 0}

StreamIdle == <<hotkeyVars, pipelineVars, gateOnly, sess, probe, kbd>>

InitStream ==
    /\ stream \in UNION {{NewStream(p, r, n) : n \in StreamLens(chunk_size(p, r))} :
                            p \in SessionProviders, r \in SampleRates}
    /\ platform = "none"
    /\ pipelineAvail = TRUE
    /\ config = ProviderConfig(stream.provider)
    /\ current_binding = config.binding
    /\ supPc = "off"
    /\ InitHotkeyIdle
    /\ InitPipelineIdle
    /\ gateIn = <<>>
    /\ gateOut = "unset"
    /\ sess = NoSess
    /\ probe = NoProbe
    /\ kbd = NoKbd

\* dashscope.rs:185-186, funasr.rs:100-101, qwen.rs:182-183: the chunk size
\* is computed and audio_data.chunks(chunk_size) is called; slice::chunks
\* panics when the size is zero.
StreamBegin ==
    /\ stream.pc = "begin"
    /\ LET size == chunk_size(stream.provider, stream.sample_rate)
       IN stream' = [stream EXCEPT !.size = size,
                                   !.pc = IF size = 0 THEN "panic" ELSE "stream"]
    /\ UNCHANGED StreamIdle

\* dashscope.rs:186-191, funasr.rs:101-106, qwen.rs:183-197: the next chunk
\* is sent as one frame.
StreamSend ==
    /\ stream.pc = "stream"
    /\ stream.rest # <<>>
    /\ stream' = [stream EXCEPT !.frames = Append(@, next_chunk(stream.rest, stream.size)),
                                !.rest = after_chunk(stream.rest, stream.size)]
    /\ UNCHANGED StreamIdle

\* The chunk iterator is exhausted: the loop ends.
StreamEnd ==
    /\ stream.pc = "stream"
    /\ stream.rest = <<>>
    /\ stream' = [stream EXCEPT !.pc = "sent"]
    /\ UNCHANGED StreamIdle

NextStream == StreamBegin \/ StreamSend \/ StreamEnd

SpecStream == InitStream /\ [][NextStream]_vars

\* ================================================== one connectivity probe
MaxWait == 6

\* funasr.rs:169: Duration::from_secs(5).
ProbeTimeoutSecs == 5

\* The HTTP statuses GET /api/v1/models can answer with.
HttpStatuses == {200, 204, 401, 403, 500}

ProbeIdle == <<hotkeyVars, pipelineVars, gateOnly, sess, stream, kbd>>

InitProbe ==
    /\ probe \in {NewProbe(p, k) : p \in SessionProviders, k \in BOOLEAN}
    /\ platform = "none"
    /\ pipelineAvail = TRUE
    /\ config = ProviderConfig(probe.provider)
    /\ current_binding = config.binding
    /\ supPc = "off"
    /\ InitHotkeyIdle
    /\ InitPipelineIdle
    /\ gateIn = <<>>
    /\ gateOut = "unset"
    /\ sess = NoSess
    /\ stream = NoStream
    /\ kbd = NoKbd

ProbeReturn(pr, res) == [pr EXCEPT !.pc = "done", !.result = res]

\* lib.rs:116-119: the test command calls the client's test_api.
ProbeCall ==
    /\ probe.pc = "idle"
    /\ probe' = [probe EXCEPT !.pc = "setup"]
    /\ UNCHANGED ProbeIdle

\* dashscope.rs:280-285, qwen.rs:267-272: the GET request is built and sent
\* (an invalid header value makes send() fail at once); funasr.rs:165-176:
\* the TLS connector is built and the connection attempt is started under
\* the timeout.
ProbeSetup ==
    /\ probe.pc = "setup"
    /\ probe' = IF probe.setupOk THEN [probe EXCEPT !.pc = "pending"]
                ELSE ProbeReturn(probe, SessErr("Network", <<"setup">>))
    /\ UNCHANGED ProbeIdle

\* dashscope.rs:284-295, qwen.rs:271-282: the response arrives with a status,
\* or the transport fails.
http_result(a) ==
    IF ~a.transport THEN SessErr("Network", <<"transport">>)
    ELSE IF a.status \in 200 .. 299 THEN SessOk("ok")
    ELSE SessErr("Api", <<"status">>)

\* funasr.rs:179-181: the connection attempt completes.
connect_result(a) ==
    IF a.transport THEN SessOk("ok") ELSE SessErr("Network", <<"connect">>)

\* What the remote end can answer: the transport works or fails, and over
\* HTTP a status comes back.
ProbeAnswers(p) ==
    {[transport |-> FALSE, status |-> 0]} \cup
    {[transport |-> TRUE, status |-> st] :
        st \in IF p = "FunAsr" THEN {0} ELSE HttpStatuses}

ProbeAnswer(a) ==
    /\ probe.pc = "pending"
    /\ probe' = ProbeReturn([probe EXCEPT !.status = a.status],
                            IF probe.provider = "FunAsr" THEN connect_result(a)
                            ELSE http_result(a))
    /\ UNCHANGED ProbeIdle

\* The deadline after which the pending probe is abandoned: funasr.rs:168-177
\* wraps the attempt in tokio::time::timeout; Client::new() of
\* dashscope.rs:279 / qwen.rs:266 sets no timeout.
probe_deadline(p) == IF p = "FunAsr" THEN ProbeTimeoutSecs ELSE -1

\* A second passes with the probe pending.
ProbeTick ==
    /\ probe.pc = "pending"
    /\ probe.waited < MaxWait
    /\ probe.waited # probe_deadline(probe.provider)
    /\ probe' = [probe EXCEPT !.waited = @ + 1]
    /\ UNCHANGED ProbeIdle

\* funasr.rs:182: Err(_) of the timeout.
ProbeTimeout ==
    /\ probe.pc = "pending"
    /\ probe.waited = probe_deadline(probe.provider)
    /\ probe' = ProbeReturn(probe, SessErr("Network", <<"timeout">>))
    /\ UNCHANGED ProbeIdle

NextProbe ==
    \/ ProbeCall
    \/ ProbeSetup
    \/ \E a \in ProbeAnswers(probe.provider) : ProbeAnswer(a)
    \/ ProbeTick
    \/ ProbeTimeout

SpecProbe == InitProbe /\ [][NextProbe]_vars

\* The probe's own steps are taken and time passes; whether the remote
\* endpoint ever answers is up to the endpoint.
SpecProbeLive ==
    /\ InitProbe /\ [][NextProbe]_vars
    /\ WF_vars(ProbeCall) /\ WF_vars(ProbeSetup)
    /\ WF_vars(ProbeTick) /\ WF_vars(ProbeTimeout)

\* ================================================ one keyboard, two listeners
MaxKeySteps == 5

\* Two modifiers, two ordinary keys and the toggle key.
KeyboardKeys == {"Alt", "Control", "KeyA", "KeyB", "CapsLock"}

KbdBindings ==
    { HotkeyBinding("Alt", {}),
      HotkeyBinding("Alt", {"Control"}),
      HotkeyBinding("KeyA", {}),
      HotkeyBinding("KeyA", {"Control"}),
      HotkeyBinding("CapsLock", {}) }

KbdIdle == <<hotkeyVars, pipelineVars, gateOnly, sess, stream, probe>>

\* A listener of each platform has just been started for the same binding
\* (macos.rs:121-123, windows.rs:117-118) and no key is held.
InitKbd ==
    /\ kbd \in {NewKbd(b) : b \in KbdBindings}
    /\ platform = "none"
    /\ pipelineAvail = TRUE
    /\ config = AppConfig(kbd.binding, "Qwen", TRUE, FALSE, FALSE, TRUE)
    /\ current_binding = config.binding
    /\ supPc = "off"
    /\ InitHotkeyIdle
    /\ InitPipelineIdle
    /\ gateIn = <<>>
    /\ gateOut = "unset"
    /\ sess = NoSess
    /\ stream = NoStream
    /\ probe = NoProbe

\* macos.rs:228-240: the event types the tap is created for.
subscribed(binding) ==
    IF is_modifier(binding.key) THEN {"FlagsChanged"}
    ELSE IF binding.key = "CapsLock" THEN {"FlagsChanged"}
    ELSE {"FlagsChanged", "KeyDown", "KeyUp"}

\* macos.rs:147 event.get_flags(): the flags of the modifiers held, and
\* AlphaShift while Caps Lock is on.
TapFlags(down, caps) == EventFlags(down) \cup (IF caps THEN {"AlphaShift"} ELSE {})

\* The raw event a change of key k produces: flags-changed for a modifier
\* and for Caps Lock, key-down / key-up for any other key.
TapEvent(k, isDown, down, caps) ==
    RawEvent(IF is_modifier(k) \/ k = "CapsLock" THEN "FlagsChanged"
             ELSE IF isDown THEN "KeyDown" ELSE "KeyUp",
             k, TapFlags(down, caps))

\* macos.rs:146-226: the tap callback runs for the raw event ev, when the
\* tap was created for its type.
mac_step(kb, ev) ==
    LET v == IF ev.type \in subscribed(kb.binding)
             THEN mac_key_pressed(kb.binding, ev) ELSE "ignore"
        r == handle_key_state_change(v = "down", kb.mac, NoPid)
    IN [kb EXCEPT !.ev = ev, !.seen = v,
                  !.mac = IF v = "ignore" THEN @ ELSE r.l,
                  !.macLog = IF v = "ignore" THEN @ ELSE Logged2(@, r.trig)]

\* windows.rs:138-171: one pass of the polling loop with the keys `down`.
win_step(kb, down) ==
    LET r == win_edge(hotkey_active(kb.binding, down), kb.win)
    IN [kb EXCEPT !.win = r.l, !.winLog = Logged2(@, r.trig)]

\* Key k goes down; Caps Lock toggles when its key goes down.  The tap sees
\* the raw event and the polling loop sees the new key state.
KbdPress(k) ==
    /\ k \notin kbd.down
    /\ kbd.n < MaxKeySteps
    /\ LET down == kbd.down \cup {k}
           caps == IF k = "CapsLock" THEN ~kbd.caps ELSE kbd.caps
           kb == [kbd EXCEPT !.down = down, !.caps = caps, !.n = @ + 1]
       IN kbd' = win_step(mac_step(kb, TapEvent(k, TRUE, down, caps)), down)
    /\ UNCHANGED KbdIdle

\* Key k goes up.
KbdRelease(k) ==
    /\ k \in kbd.down
    /\ kbd.n < MaxKeySteps
    /\ LET down == kbd.down \ {k}
           kb == [kbd EXCEPT !.down = down, !.n = @ + 1]
       IN kbd' = win_step(mac_step(kb, TapEvent(k, FALSE, down, kbd.caps)), down)
    /\ UNCHANGED KbdIdle

\* A held ordinary key auto-repeats: the tap sees another key-down, the
\* polling loop the same key state.
KbdRepeat(k) ==
    /\ k \in kbd.down
    /\ ~is_modifier(k) /\ k # "CapsLock"
    /\ kbd.n < MaxKeySteps
    /\ kbd' = win_step(mac_step([kbd EXCEPT !.n = @ + 1],
                                TapEvent(k, TRUE, kbd.down, kbd.caps)), kbd.down)
    /\ UNCHANGED KbdIdle

NextKbd ==
    \/ \E k \in KeyboardKeys : KbdPress(k)
    \/ \E k \in KeyboardKeys : KbdRelease(k)
    \/ \E k \in KeyboardKeys : KbdRepeat(k)

SpecKbd == InitKbd /\ [][NextKbd]_vars

\* ==================================================================== claims
DoneTasks == {t \in tasks : t.pc = "done"}

\* The output_text calls the invocation t has made.
OutputsOf(t) == {i \in DOMAIN outputs : outputs[i].task = t.id}

CountOf(log, x) == Cardinality({i \in DOMAIN log : log[i] = x})

\* C1: within one listener instance the start and stop threads it spawns
\* alternate start, stop, start, ... beginning with a start, and there is
\* exactly one start per transition of the matched state from not satisfied
\* to satisfied and one stop per transition back, whatever repeated key-downs
\* and flag notifications arrive in between.
C1_EdgesTriggerOnce ==
    /\ \A i \in DOMAIN trigLog : trigLog[i] = IF i % 2 = 1 THEN "start" ELSE "stop"
    /\ CountOf(trigLog, "start") = edges.rise
    /\ CountOf(trigLog, "stop") = edges.fall

\* One listener has seen press, release and press again.
C1_Witness == Len(trigLog) = 3 /\ edges.rise = 2 /\ edges.fall = 1

\* C2: when a reload is applied while the bound key is held and a session is
\* active, no second start_recording is triggered during that hold.
C2_NoDuplicateStart == session.straddled => session.holdStarts <= 1

\* Nothing is left that could still trigger a stop: every key is up, the
\* listener runs and has seen the keys up, the supervisor waits.
Settled ==
    /\ keysDown = {}
    /\ listener.alive
    /\ ~listener.is_key_pressed
    /\ ~stopSignal
    /\ supPc = "wait"
    /\ reloadChan = <<>>
    /\ threads = {}

\* C3: when a reload is applied while the bound key is held and a session is
\* active, the release of the key still triggers the stop: once the keys are
\* up and the hotkey layer has settled, the session is not left open with the
\* recorder Recording.
C3_ReleaseStopsSession ==
    (Settled /\ session.straddled) =>
        ~(session.active /\ recorder.state = "Recording")

\* C4: while a session is active (a start was triggered and its stop was
\* not), no further start_recording is triggered.
C4_NoStartWhileActive == [][session'.starts > session.starts => ~session.active]_vars

\* C5: whenever stop_and_process returns an error, it has returned the
\* recorder to Idle: the invocation has stopped the recorder, or the
\* recorder is Idle.
C5_ErrorLeavesIdle ==
    \A t \in DoneTasks :
        t.result.kind = "Err" => (t.stopped \/ recorder.state = "Idle")

\* C6: an invocation whose drained buffer is empty returns Ok("") right after
\* the buffer check, with no factory, recognition, refinement or output
\* call, under every configuration.
C6_EmptyBufferOk ==
    \A t \in tasks :
        t.drained = 0 =>
            /\ t.pc = "done"
            /\ t.result = Ok("")
            /\ t.log = <<"stop", "buffer">>
            /\ OutputsOf(t) = {}

\* An empty buffer was processed under an unknown, unconfigured provider.
C6_Witness ==
    \E t \in tasks :
        t.drained = 0 /\ t.pc = "done" /\ config.provider = "Bogus" /\ ~config.asr_configured

\* The largest absolute amplitude of a non-empty buffer.
Peak(samples) ==
    CHOOSE p \in {Abs(samples[i]) : i \in DOMAIN samples} :
        \A j \in DOMAIN samples : Abs(samples[j]) <= p

\* C7: for a non-empty buffer the gate's answer is decided by the peak
\* absolute amplitude alone: below 0.001 the silence error, from 0.001 up to
\* but not including 0.05 the too-quiet error, from 0.05 on the buffer passes.
C7_GateByPeak ==
    (gateOut # "unset" /\ gateIn # <<>>) =>
        /\ Peak(gateIn) < SilenceThreshold => gateOut = "silent"
        /\ (SilenceThreshold <= Peak(gateIn) /\ Peak(gateIn) < QuietThreshold)
              => gateOut = "quiet"
        /\ QuietThreshold <= Peak(gateIn) => gateOut = "ok"

\* A buffer whose peak is exactly 0.001 (reached by a negative sample or
\* not) was classed too quiet.
C7_Witness ==
    /\ Len(gateIn) = MaxGateLen
    /\ Peak(gateIn) = SilenceThreshold
    /\ gateOut = "quiet"

Rank(step) ==
    CASE step = "stop" -> 1
      [] step = "buffer" -> 2
      [] step = "gate" -> 3
      [] step = "encode" -> 4
      [] step = "create" -> 5
      [] step = "recognize" -> 6
      [] step = "refine" -> 7
      [] step = "output" -> 8

InLog(t, step) == \E i \in DOMAIN t.log : t.log[i] = step

LastStep(t) == IF t.log = <<>> THEN "-" ELSE t.log[Len(t.log)]

\* C8: the steps of an invocation run in the order stop/drain, buffer check,
\* gate, encode, factory, recognize, refine, output, none without the ones
\* it follows; an error ends the invocation at the step that failed; a
\* recognition error is returned as the AsrError the provider answered, with
\* no refinement and no output.
C8_StepsInOrder ==
    \A t \in tasks :
        /\ \A i, j \in DOMAIN t.log : i < j => Rank(t.log[i]) < Rank(t.log[j])
        /\ InLog(t, "buffer") => InLog(t, "stop")
        /\ InLog(t, "gate") => InLog(t, "buffer")
        /\ InLog(t, "encode") => InLog(t, "gate")
        /\ InLog(t, "create") => InLog(t, "encode")
        /\ InLog(t, "recognize") => InLog(t, "create")
        /\ InLog(t, "refine") => InLog(t, "recognize")
        /\ InLog(t, "output") => InLog(t, "recognize")
        /\ t.result.kind = "Err" =>
              /\ t.pc = "done"
              /\ t.result.err = <<"Audio", "stop">> => LastStep(t) = "stop"
              /\ t.result.err[2] \in {"silent", "quiet"} => LastStep(t) = "gate"
              /\ t.result.err = <<"Audio", "encode">> => LastStep(t) = "encode"
              /\ t.result.err = <<"Asr", "create">> => LastStep(t) = "create"
              /\ t.result.err[1] = "Output" => LastStep(t) = "output"
        /\ t.answer \in AsrErrors =>
              /\ t.result = Err("Asr", t.answer)
              /\ LastStep(t) = "recognize"
              /\ OutputsOf(t) = {}

\* C8 as stated, refinement among the steps: the failure of any step, the
\* refinement included, ends the invocation with an error at that step.
C8_EveryFailureEnds ==
    \A t \in tasks :
        /\ t.answer \in AsrErrors =>
              t.result.kind = "Err" /\ LastStep(t) = "recognize"
        /\ t.refine = "failed" =>
              t.result.kind = "Err" /\ LastStep(t) = "refine"
        /\ t.outOk = "failed" =>
              t.result.kind = "Err" /\ LastStep(t) = "output"

\* One invocation failed at the gate while another failed in recognition.
C8_Witness ==
    /\ \E t \in tasks : t.answer = "Api" /\ t.pc = "done"
    /\ \E t \in tasks : t.result = Err("Other", "quiet")

\* C9: when refine_text fails, the invocation goes on with the recognized
\* transcript: it hands exactly that transcript to output_text, returns it
\* when the output succeeds, and fails with nothing but the output's error.
C9_RefineFailureSwallowed ==
    \A t \in tasks :
        t.refine = "failed" =>
            /\ t.pc = "done"
            /\ t.text # ""
            /\ Cardinality(OutputsOf(t)) = 1
            /\ \A i \in OutputsOf(t) : outputs[i].text = t.text
            /\ t.outOk = "ok" => t.result = Ok(t.text)
            /\ t.result.kind = "Err" => t.result.err[1] = "Output"

\* C9 as stated: when refine_text fails, the invocation does not fail; it
\* emits the recognized transcript and returns it.
C9_RefineFailureReturnsText ==
    \A t \in tasks :
        t.refine = "failed" =>
            /\ t.pc = "done"
            /\ t.result = Ok(t.text)
            /\ \A i \in OutputsOf(t) : outputs[i].text = t.text

\* A refinement failed and "hello" was returned.
C9_Witness ==
    \E t \in tasks : t.refine = "failed" /\ t.result = Ok("hello")

\* C10: a successful invocation has called output_text exactly once when the
\* text it returns is not empty and never when it is empty; the call carries
\* the returned text, the caller's pid and the snapshot's output flag; a
\* failed output_text makes the invocation fail with the Output error.
C10_OutputOnce ==
    \A t \in DoneTasks :
        /\ t.result.kind = "Ok" =>
              /\ Cardinality(OutputsOf(t)) = IF t.result.text # "" THEN 1 ELSE 0
              /\ \A i \in OutputsOf(t) :
                    /\ outputs[i].text = t.result.text
                    /\ outputs[i].pid = t.pid
                    /\ outputs[i].restore_clipboard = t.cfg.restore_clipboard
        /\ t.outOk = "failed" => t.result = Err("Output", "paste")

\* A refined text was emitted for a caller that passed pid 1.
C10_Witness ==
    \E t \in DoneTasks :
        /\ t.result = Ok("Hello.")
        /\ t.pid = 1
        /\ \E i \in OutputsOf(t) : outputs[i].pid = 1

\* The invocation t has taken its configuration snapshot (voice.rs:70).
HasSnapshot(t) == t.cfg # NoConfig

\* C11: an invocation takes one configuration snapshot and every later
\* choice follows that snapshot, whatever save_config does meanwhile: the WAV
\* path and the factory's answer follow the snapshot's provider, refinement
\* is attempted exactly when the snapshot enables it, output_text gets the
\* snapshot's flag, and the snapshot of an invocation never changes.
C11_SnapshotUsed ==
    /\ [](\A t \in tasks :
            /\ t.pc = "channels" => t.cfg.provider = "OpenAIWhisper"
            /\ InLog(t, "recognize") => create_asr_service(t.cfg)
            /\ t.result = Err("Asr", "create") => ~create_asr_service(t.cfg)
            /\ (t.answer = "ok" /\ t.pc \in {"refine", "done"}) =>
                  (InLog(t, "refine") <=> wants_refine(t.cfg, t.text))
            /\ \A i \in OutputsOf(t) :
                  outputs[i].restore_clipboard = t.cfg.restore_clipboard)
    /\ [][\A t \in tasks : \A u \in tasks' :
            (u.id = t.id /\ HasSnapshot(t)) => u.cfg = t.cfg]_vars

\* An invocation emitted its text under its snapshot after save_config had
\* replaced the provider, the refinement switch and the output flag.
C11_Witness ==
    \E t \in DoneTasks :
        /\ HasSnapshot(t)
        /\ OutputsOf(t) # {}
        /\ t.cfg.provider # config.provider
        /\ t.cfg.llm_enabled # config.llm_enabled
        /\ t.cfg.restore_clipboard # config.restore_clipboard

StoppedEvent == Event("recording-stopped", NoMsg)

\* The triggers that were release edges whose thread has run.
StopEdges == {e \in EdgeIds : events[e] # <<>> /\ events[e][1] = StoppedEvent}

\* C12: for a release edge handled with a pipeline, recording-stopped is
\* emitted first, no outcome event while stop_and_process is in flight, and
\* when it returns exactly one outcome event: processing-error with the
\* error's message when it failed, processing-complete when it succeeded.
C12_OneOutcomeEvent ==
    /\ [](\A e \in StopEdges :
            /\ Len(events[e]) <= 2
            /\ Len(events[e]) = 2 =>
                  /\ events[e][2].name \in {"processing-complete", "processing-error"}
                  /\ ~\E t \in tasks : t.edge = e
            /\ (Len(events[e]) = 1 /\ pipelineAvail) =>
                  Cardinality({t \in tasks : t.edge = e}) = 1)
    /\ [](\A t \in tasks : t.edge # 0 => events[t.edge] = <<StoppedEvent>>)
    /\ [][\A t \in tasks :
            (t.edge # 0 /\ ~\E u \in tasks' : u.id = t.id) =>
                /\ t.pc = "done"
                /\ events'[t.edge] =
                      <<StoppedEvent,
                        IF t.result.kind = "Err"
                        THEN Event("processing-error", t.result.err)
                        ELSE Event("processing-complete", NoMsg)>>]_vars

\* One release ended in processing-error for a failed recognition, another
\* in processing-complete.
C12_Witness ==
    \E e1, e2 \in EdgeIds :
        /\ events[e1] = <<StoppedEvent, Event("processing-error", <<"Asr", "Network">>)>>
        /\ events[e2] = <<StoppedEvent, Event("processing-complete", NoMsg)>>

\* C13: on a reload the supervisor stores the dequeued binding and signals
\* the listener to stop; it spawns the next listener only when the previous
\* listener thread has ended, and with the stored binding; so a listener is
\* never started beside a running one, and a listener that runs without a
\* stop pending has the binding dequeued last.
C13_StopJoinRestart ==
    /\ [](supPc = "spawn" => ~listener.alive)
    /\ []((listener.alive /\ supPc = "wait") => listener.binding = current_binding)
    /\ [][(supPc = "wait" /\ supPc' = "join") =>
              (stopSignal' /\ current_binding' = Head(reloadChan))]_vars
    /\ [][(listener'.alive /\ ~listener.alive) =>
              (supPc = "spawn" /\ listener'.binding = current_binding)]_vars

\* A reload from the binding Alt to Control+A has been completed after a
\* session was started under Alt.
C13_Witness ==
    /\ saves = 1
    /\ supPc = "wait"
    /\ reloadChan = <<>>
    /\ listener.alive
    /\ listener.binding = HotkeyBinding("KeyA", {"Control"})
    /\ session.starts = 1
    /\ session.holdBinding = HotkeyBinding("Alt", {})

\* ========================================== the hot-swap under scheduling
\* The supervisor thread and the listener thread are scheduled: the macOS run
\* loop returns every 100 ms (macos.rs:283-289), the Windows loop sleeps 10 ms
\* (windows.rs:174), join and spawn return.  Nothing is assumed about the
\* stop_and_process invocations, the spawned threads, the user or the
\* providers.
SpecSwap ==
    /\ Init /\ [][Next]_vars
    /\ WF_vars(MacStop)
    /\ WF_vars(WinCheck)
    /\ WF_vars(WinPoll(HotkeyEnv))
    /\ WF_vars(SupJoin)
    /\ WF_vars(SupSpawn)

\* The same, and the supervisor thread itself is scheduled: it publishes its
\* sender (hotkey/mod.rs:33-34) and blocking_recv returns once a binding is
\* in the channel (hotkey/mod.rs:55, 80).
SpecReload ==
    /\ Init /\ [][Next]_vars
    /\ WF_vars(MacStop)
    /\ WF_vars(WinCheck)
    /\ WF_vars(WinPoll(HotkeyEnv))
    /\ WF_vars(SupInit)
    /\ WF_vars(SupRecv)
    /\ WF_vars(SupJoin)
    /\ WF_vars(SupSpawn)

\* A stop_and_process begun by a release edge has not returned.
InFlight == \E t \in tasks : t.edge # 0 /\ t.pc # "done"

\* C14: a hot-swap begun while a stop_and_process triggered by the old
\* listener is in flight completes (the old listener is joined and the new
\* one runs) whether or not that invocation ever returns.
C14_SwapNotBlocked ==
    (supPc = "join" /\ InFlight) ~> (supPc = "wait" /\ listener.alive)

\* The new listener runs while the invocation the old listener triggered
\* still waits for the provider's answer.
C14_Witness ==
    /\ saves = 1
    /\ reloadChan = <<>>
    /\ supPc = "wait"
    /\ listener.alive
    /\ trigLog = <<>>
    /\ \E t \in tasks : t.edge # 0 /\ t.pc = "recognize"

\* C15: once stop_and_process has begun it always eventually returns a
\* result: the recognize call it makes returns, whatever the provider's
\* server does once the connection is established.
C15_AlwaysReturns == (sess.calls > 0) ~> (sess.pc = "done")

\* C17: when the server accepts the connection, keeps the socket open and
\* never sends the acknowledgment, recognize does not stay in the
\* acknowledgment wait: it eventually returns.
C17_NoAckFails == (sess.pc = "ackwait") ~> (sess.acked \/ sess.pc = "done")

\* The messages of kind `what` the call has sent.
Sent(what) == {i \in DOMAIN sess.sent : sess.sent[i] = what}

\* C16: a DashScope or Qwen session sends no audio frame and no finish
\* signal before it has read the acknowledgment (task-started, respectively
\* session.created or session.updated); when the socket closes, fails or
\* ends during the wait for it, recognize has failed and no audio was sent.
C16_AckBeforeAudio ==
    sess.provider \in {"DashScope", "Qwen"} =>
        /\ (Sent("audio") # {} \/ Sent("finish") # {}) => sess.acked
        /\ sess.closeStage = "ackwait" =>
              /\ sess.pc = "done"
              /\ sess.result.kind \in {"Network", "Api"}
              /\ Sent("audio") = {}
              /\ Sent("finish") = {}

\* A Qwen session was acknowledged and has sent its audio and the commit.
C16_Witness ==
    /\ sess.provider = "Qwen"
    /\ sess.acked
    /\ sess.sent = <<"configure", "audio", "audio", "finish">>

\* C18: for each provider and at every stage, once a frame carrying an error
\* code has been read recognize has returned an Api error that carries the
\* remote code and message, it has sent nothing after reading the frame and
\* it returns no transcript.
C18_ErrorAborts ==
    sess.errStage # "none" =>
        /\ sess.pc = "done"
        /\ sess.result = SessErr("Api", <<RemoteCode, RemoteMessage>>)
        /\ Len(sess.sent) = sess.errSent

\* C19: for each provider, when the socket is closed by a Close frame, the
\* end of the stream or a transport error at a stage where no transcript text
\* has been captured, recognize returns a Network error, never a successful
\* empty result and never an Api error.
C19_CloseIsNetwork ==
    (sess.closeKind # "none" /\ sess.closeText = "") =>
        (sess.pc = "done" /\ sess.result.kind = "Network")

RECURSIVE Concat(_)
Concat(fs) == IF fs = <<>> THEN <<>> ELSE Head(fs) \o Concat(Tail(fs))

\* The frame size the provider's formula gives for a sample rate.
FormulaSize(p, rate) ==
    CASE p = "DashScope" -> (rate * 2) \div 10
      [] p = "FunAsr" -> (rate * 2) \div 5
      [] p = "Qwen" -> 3200

\* C21: for every sample rate and audio length the stream is cut with the
\* provider's formula: every frame but the last has exactly the formula's
\* size, the last has between 1 byte and that size, the streaming stage
\* completes, and the frames in send order concatenate to the input audio.
C21_FramesByFormula ==
    stream.pc # "begin" =>
        LET size == FormulaSize(stream.provider, stream.sample_rate)
            n == Len(stream.frames)
        IN /\ stream.pc \in {"stream", "sent"}
           /\ \A i \in 1 .. n :
                 /\ Len(stream.frames[i]) >= 1
                 /\ Len(stream.frames[i]) <= size
                 /\ (i < n \/ stream.rest # <<>>) => Len(stream.frames[i]) = size
           /\ Concat(stream.frames) \o stream.rest = stream.audio

\* The stretch of 16-bit mono audio, in milliseconds, one frame of the
\* provider is meant to hold (dashscope.rs:184, funasr.rs:99, qwen.rs:182).
ChunkMillis(p) == IF p = "FunAsr" THEN 200 ELSE 100

\* C22: for every provider and every reported sample rate the chunk size is
\* derived from that rate (the bytes of the provider's frame duration at the
\* reported rate), is at least 1 byte, and the streaming stage does not fail.
C22_SizeFromRate ==
    stream.pc # "begin" =>
        /\ stream.size = (stream.sample_rate * 2 * ChunkMillis(stream.provider)) \div 1000
        /\ stream.size >= 1
        /\ stream.pc # "panic"

\* C23: when the factory is called with an unconfigured or unknown provider
\* selection it fails, and stop_and_process returns that failure as an error
\* value at the factory step: it calls no recognize (no network session is
\* opened), no refinement and no output.
C23_FactoryFailure ==
    \A t \in tasks :
        (InLog(t, "create") /\ ~create_asr_service(t.cfg)) =>
            /\ t.pc = "done"
            /\ t.result = Err("Asr", "create")
            /\ LastStep(t) = "create"
            /\ t.answer = "-"
            /\ OutputsOf(t) = {}

\* An invocation with a loud enough buffer failed at the factory under the
\* unknown provider, its key being set.
C23_Witness ==
    \E t \in tasks :
        /\ t.cfg.provider = "Bogus"
        /\ t.cfg.asr_configured
        /\ t.drained > 0
        /\ t.result = Err("Asr", "create")

\* C24: for every provider the probe eventually returns success or failure
\* even when the remote endpoint never answers: a pending probe is abandoned
\* at the timeout with a Network error, and it sends no configure, audio or
\* finish message.
C24_ProbeReturns ==
    /\ (probe.pc = "pending") ~> (probe.pc = "done")
    /\ [](probe.waited > ProbeTimeoutSecs => probe.pc = "done")
    /\ [](probe.sent = <<>>)

\* The invocations whose recognize call has answered with a transcript.
Recognized == {t \in tasks : t.answer = "ok" /\ t.pc \in {"refine", "done"}}

\* C25 as stated: whenever refinement is enabled in the snapshot and the
\* transcript is not empty, refine_text is invoked exactly once; otherwise it
\* is never invoked.
C25_RefineWhenEnabled ==
    \A t \in Recognized :
        CountOf(t.log, "refine") = IF t.cfg.llm_enabled /\ t.text # "" THEN 1 ELSE 0

\* C25: refine_text is invoked exactly once when refinement is enabled in
\* the snapshot, the transcript is not empty and the factory yields a
\* refinement service, and never otherwise; an invocation that did not call
\* it hands the recognized text to the output and returns it.
C25_RefineOnceIfService ==
    /\ \A t \in Recognized :
          /\ CountOf(t.log, "refine") =
                IF t.cfg.llm_enabled /\ t.text # "" /\ create_llm_service(t.cfg)
                THEN 1 ELSE 0
          /\ (t.pc = "done" /\ ~InLog(t, "refine")) =>
                /\ \A i \in OutputsOf(t) : outputs[i].text = t.text
                /\ t.result.kind = "Ok" => t.result.text = t.text
    /\ \A t \in tasks \ Recognized : ~InLog(t, "refine")

\* With refinement enabled and its service available, "hello" was refined
\* once and the call returned.
C25_Witness ==
    \E t \in DoneTasks :
        /\ t.cfg.llm_enabled
        /\ t.text = "hello"
        /\ CountOf(t.log, "refine") = 1
        /\ t.refine = "ok"

\* The invocations waiting on the recognition or on the refinement; the
\* output call is made in the step that ends either wait.
Waiting == {t \in tasks : t.pc \in {"recognize", "refine"}}

\* C26: wherever stop_and_process waits on recognition, refinement or output
\* it holds no guard of the recorder lock, the lock having been taken only
\* for the stop/drain (write), the sample-rate read and the channel-count
\* read; while an invocation waits, start_recording gets the lock.
C26_NoLockWhileWaiting ==
    /\ \A t \in tasks :
          /\ Len(t.locks) <= 3
          /\ \A i \in DOMAIN t.locks : t.locks[i] = <<"write", "read", "read">>[i]
          /\ Len(t.locks) = 3 => t.cfg.provider = "OpenAIWhisper"
          /\ t \in Waiting => t.guard = "none"
    /\ Waiting # {} => RecorderLockFree

\* The recorder records again while the invocation that stopped it is still
\* waiting for its recognition.
C26_Witness ==
    \E t \in tasks :
        /\ t.pc = "recognize"
        /\ t.stopped
        /\ t.locks = <<"write", "read">>
        /\ recorder.state = "Recording"

\* The keys that go down or up in the step.
KeysChanged == (keysDown' \ keysDown) \cup (keysDown \ keysDown')

\* C27: the listener never waits for recognition.  In every step taken
\* while a stop_and_process triggered by the hotkey is in flight, the tap
\* callback still runs for the raw event of a key going down or up (the edge
\* detector observes it), and a rising edge seen while the listener is not
\* recording triggers start_recording in that very step, on macOS by
\* spawning the start thread.
C27_ListenerNeverWaits ==
    [][InFlight =>
          /\ (platform = "macos" /\ listener.alive) =>
                \A k \in KeysChanged :
                    LET v == mac_key_pressed(listener.binding,
                                             KeyEvent(k, k \in keysDown', keysDown'))
                    IN v # "ignore" => edges' = Observed(edges, v = "down")
          /\ (edges'.rise > edges.rise /\ ~listener.is_recording) =>
                /\ session'.starts = session.starts + 1
                /\ platform = "macos" => \E j \in threads' \ threads : j.kind = "start"
      ]_vars

\* The recorder records for a second press while the invocation of the
\* first release still waits for its recognition.
C27_Witness ==
    /\ session.starts = 2
    /\ session.active
    /\ recorder.state = "Recording"
    /\ \E t \in tasks : t.edge # 0 /\ t.pc = "recognize"

\* The messages of a complete session with n audio chunks.
StageOrder(n) ==
    [i \in 1 .. n + 2 |-> IF i = 1 THEN "configure" ELSE IF i = n + 2 THEN "finish" ELSE "audio"]

\* C28: in every session of every provider the messages sent follow the
\* stage order: one configure message, then the audio chunks, then one
\* finish signal and nothing after it; results are collected (the result
\* loop runs, a transcript is held or returned) only once the finish signal
\* has been sent.
C28_StageOrder ==
    /\ Len(sess.sent) <= sess.audio_len + 2
    /\ \A i \in DOMAIN sess.sent : sess.sent[i] = StageOrder(sess.audio_len)[i]
    /\ (sess.pc = "drain" \/ sess.final_text # "" \/ sess.result.kind = "Ok") =>
          sess.sent = StageOrder(sess.audio_len)

\* A FunASR session sent its start message, two chunks and the end message
\* and returned the transcript it collected.
C28_Witness ==
    /\ sess.provider = "FunAsr"
    /\ sess.sent = <<"configure", "audio", "audio", "finish">>
    /\ sess.result = SessOk("a")

\* C29: in the FunASR client a Close frame, the end of the stream or a
\* transport error read after at least one non-empty transcript was
\* captured does not fail the call: recognize returns Ok with the transcript
\* it holds, the last one captured.
C29_CloseAfterTextOk ==
    (sess.provider = "FunAsr" /\ sess.closeKind # "none" /\ sess.textSeen) =>
        /\ sess.pc = "done"
        /\ sess.result = SessOk(sess.closeText)

\* C30: a DashScope session whose result loop was ended by task-finished
\* returns the text of the most recent sentence flagged sentence-end when
\* one was received, otherwise the text of the latest result-generated
\* sentence received.
C30_LatestSentence ==
    (sess.provider = "DashScope" /\ sess.result.kind = "Ok" /\ sess.closeKind = "none") =>
        sess.result.text =
            IF sess.lastEnd # "none" THEN sess.lastEnd
            ELSE IF sess.lastText # "none" THEN sess.lastText
            ELSE ""

\* C31: the FunASR client returns the `text` of the last message that carried
\* one (the empty text when none did), each such message replacing what was
\* held; the first message with is_final=true or mode "offline" ends the
\* call, so no message after it is read.
C31_LastTextWins ==
    sess.provider = "FunAsr" =>
        /\ sess.result.kind = "Ok" =>
              sess.result.text = (IF sess.lastText = "none" THEN "" ELSE sess.lastText)
        /\ sess.ended => sess.pc = "done" /\ sess.result.kind = "Ok"

\* A call ended by a final message without a text, which returned the text
\* of an earlier message.
C31_Witness ==
    /\ sess.provider = "FunAsr" /\ sess.ended /\ sess.pc = "done"
    /\ sess.lastEnd = "none" /\ sess.lastText = "b" /\ sess.result = SessOk("b")

\* C32: the Qwen client collects transcripts until the transcription.completed
\* event, which ends the collection: when that event carries a transcript it
\* is the returned text.  The transcript of a transcription.text event is
\* returned only when the socket ends before a completed event or when the
\* completed event carries no transcript.
C32_CompletedWins ==
    sess.provider = "Qwen" =>
        /\ sess.ended => sess.pc = "done" /\ sess.result.kind = "Ok"
        /\ (sess.ended /\ sess.lastEnd # "none") => sess.result.text = sess.lastEnd
        /\ (sess.result.kind = "Ok" /\ ~(sess.ended /\ sess.lastEnd # "none")) =>
              /\ sess.ended \/ sess.closeKind \in {"Close", "Eof"}
              /\ sess.result.text = (IF sess.lastText = "none" THEN "" ELSE sess.lastText)

\* A provisional transcript "a" was held when the completed event brought
\* "b", and "b" was returned.
C32_Witness ==
    /\ sess.provider = "Qwen" /\ sess.ended /\ sess.pc = "done"
    /\ sess.final_text = "a" /\ sess.lastEnd = "b" /\ sess.result = SessOk("b")

\* The primary key's flag and the flag of every required modifier are set.
FlagsMatch(kb) ==
    LET flags == TapFlags(kb.down, kb.caps)
    IN /\ keycode_to_cg_flag(kb.binding.key) \in flags
       /\ \A m \in kb.binding.modifiers : keycode_to_cg_flag(m) \in flags

\* C33: on macOS with a modifier primary key, after every flags-changed
\* notification the pressed state equals (the primary key's flag is set and
\* every required modifier's flag is set); key-down and key-up notifications
\* never change the listener's state; and a start or a stop is triggered only
\* when that predicate changes.
C33_ModifierKeyByFlags ==
    [][ is_modifier(kbd.binding.key) =>
          /\ kbd'.ev.type = "FlagsChanged" =>
                kbd'.mac.is_key_pressed = FlagsMatch(kbd')
          /\ kbd'.ev.type \in {"KeyDown", "KeyUp"} =>
                kbd'.mac = kbd.mac /\ kbd'.macLog = kbd.macLog
          /\ kbd'.macLog # kbd.macLog => FlagsMatch(kbd') # FlagsMatch(kbd)
      ]_vars

\* Alt with Control required: a start and a stop were triggered and an
\* ordinary key went down on the way.
C33_Witness ==
    /\ kbd.binding = HotkeyBinding("Alt", {"Control"})
    /\ kbd.macLog = <<"start", "stop">>
    /\ "KeyA" \in kbd.down

\* The last raw event is a key-down or key-up of the binding's primary key.
PrimaryKeyEvent(kb) ==
    kb.ev.type \in {"KeyDown", "KeyUp"} /\ kb.ev.keycode = kb.binding.key

\* Every required modifier's flag is set in the last raw event.
ModifiersPresent(kb) == \A m \in kb.binding.modifiers : keycode_to_cg_flag(m) \in kb.ev.flags

\* C34 as stated: on macOS with an ordinary primary key a start or a stop is
\* triggered only by a key-down or key-up of the primary key at which all
\* required modifiers are present; events for other key codes and
\* flags-changed notifications never trigger one.
C34_KeyEdgesFiltered ==
    [][ (~is_modifier(kbd.binding.key) /\ kbd'.macLog # kbd.macLog) =>
            PrimaryKeyEvent(kbd') /\ ModifiersPresent(kbd')
      ]_vars

\* C34, amended: on macOS with an ordinary primary key other than Caps Lock,
\* a start is triggered only by a key-down of the primary key with all
\* required modifiers present and a stop only by a key-up of the primary
\* key; such a key-down sets the pressed state whenever the modifiers are
\* present and a key-up of the primary key clears it whatever the modifiers;
\* events for other key codes and flags-changed notifications never trigger
\* a start or a stop.
C34_KeyDownFilteredKeyUpNot ==
    [][ (~is_modifier(kbd.binding.key) /\ kbd.binding.key # "CapsLock") =>
          /\ kbd'.macLog # kbd.macLog =>
                /\ PrimaryKeyEvent(kbd')
                /\ IF kbd'.macLog = Append(kbd.macLog, "start")
                   THEN kbd'.ev.type = "KeyDown" /\ ModifiersPresent(kbd')
                   ELSE kbd'.ev.type = "KeyUp"
          /\ (PrimaryKeyEvent(kbd') /\ kbd'.n # kbd.n) =>
                IF kbd'.ev.type = "KeyUp" THEN ~kbd'.mac.is_key_pressed
                ELSE ModifiersPresent(kbd') => kbd'.mac.is_key_pressed
      ]_vars

\* Control+KeyA: the recording was started, Control went up first and the
\* key-up of KeyA, with Control no longer held, stopped it.
C34_Witness ==
    /\ kbd.binding = HotkeyBinding("KeyA", {"Control"})
    /\ kbd.macLog = <<"start", "stop">>
    /\ kbd.ev = RawEvent("KeyUp", "KeyA", {})
    /\ kbd.winLog = <<"start", "stop">>

\* C40: for the same binding and the same sequence of physical key states,
\* every change being observed by both, the macOS tap listener and the
\* Windows polling listener have produced the same sequence of start/stop
\* triggers.
C40_SameTriggers == kbd.macLog = kbd.winLog

\* C35: on macOS the process id handed to stop_and_process at a release edge
\* is the foreground-process id captured at the matching rising edge (NoPid,
\* that is None, when none could be captured): the stop thread is spawned
\* with that id, the invocation it makes carries the same id, and while the
\* listener is recording the stored id is not overwritten.
C35_PidOfThePress ==
    [][ platform = "macos" =>
          /\ \A j \in threads' \ threads :
                j.kind = "stop" => j.pid = session.pressPid
          /\ \A t \in tasks' :
                t.id \notin {u.id : u \in tasks} =>
                    \E j \in threads \ threads' : j.kind = "stop" /\ t.pid = j.pid
          /\ (listener.is_recording /\ listener'.is_recording) =>
                listener'.original_app_pid = listener.original_app_pid
      ]_vars

\* A stop_and_process was called with the pid 1 captured at the press while
\* another application (none that could be identified) is in the foreground.
C35_Witness ==
    /\ platform = "macos"
    /\ frontPid = NoPid
    /\ \E t \in tasks : t.pid = 1
    /\ ~listener.is_recording

\* C36: save_config persists first.  When persistence fails the in-memory
\* configuration is unchanged and no reload is sent; when it succeeds the
\* in-memory configuration becomes the saved one and exactly one reload
\* carrying the saved configuration's hotkey binding is sent to the
\* supervisor.
C36_SaveThenOneReload ==
    [][ saves' = saves + 1 =>
          \/ config' = config /\ reloadChan' = reloadChan
          \/ reloadChan' = Append(reloadChan, config'.binding)
      ]_vars

\* C39: after the save_config calls have been made, the supervisor
\* eventually has spawned, and from then on keeps, a listener whose binding
\* is the hotkey binding of the configuration saved last (the loaded one when
\* none was saved): no reload request is lost, whenever the calls are made.
C39_LastSavedBindingRuns ==
    <>[](/\ supPc = "wait"
         /\ current_binding = config.binding
         /\ listener.binding = config.binding)

\* The edge whose start_recording reaches the recorder in this step: the
\* start thread that runs (macOS) or the rising edge the polling loop
\* handles itself (Windows); 0 when none does.
StartReaching ==
    IF ~pipelineAvail THEN 0
    ELSE IF \E j \in threads \ threads' : j.kind = "start"
    THEN (CHOOSE j \in threads \ threads' : j.kind = "start").id
    ELSE IF platform = "windows" /\ session'.starts > session.starts
    THEN session'.trigs
    ELSE 0

\* The edges whose stop_and_process stops and drains the recorder in this step.
StopsReaching ==
    {t.edge : t \in {u \in tasks : u.edge # 0 /\ ~u.stopped /\
                        \E v \in tasks' : v.id = u.id /\ v.stopped}}

\* The stop of the release edge e has not reached the recorder yet: its
\* thread has not run, or its invocation has neither stopped the recorder
\* nor returned.
StopPending(e) ==
    \/ \E j \in threads : j.kind = "stop" /\ j.id = e
    \/ \E t \in tasks : t.edge = e /\ ~t.stopped /\ t.pc # "done"

\* C37: recorder operations take effect in the order their edges were
\* detected: when the stop/drain of a release edge reaches the recorder the
\* start of every earlier press has reached it, and when the start of a
\* press reaches the recorder the stop/drain of every earlier release has.
C37_RecorderOpsInEdgeOrder ==
    [][ /\ \A e \in StopsReaching :
              \A j \in threads : j.kind = "start" => j.id > e
        /\ StartReaching # 0 =>
              \A e \in 1 .. (StartReaching - 1) : ~StopPending(e)
      ]_vars

\* C38: texts reach the output boundary in session order: of two output_text
\* calls made for release edges, the one made first belongs to the release
\* edge detected first.
C38_OutputsInSessionOrder ==
    \A i, j \in DOMAIN outputs :
        (i < j /\ outputs[i].edge # 0 /\ outputs[j].edge # 0) =>
            outputs[i].edge < outputs[j].edge

====
